---------------------------- MODULE Spec2Model ----------------------------
(***************************************************************************)
(* CatGen: the cat registry, the pedigree walks of the analytics and       *)
(* validation layers, Mendelian breeding and the phenotype pipeline.       *)
(*                                                                         *)
(* Encodings used throughout                                               *)
(*   - a Python dict is a TLA+ function whose DOMAIN is the key set;       *)
(*   - a Python list is a sequence;                                        *)
(*   - sire_id / dam_id None is NoId (0): every test the code makes on a   *)
(*     parent id is a truthiness test (`if cat.sire_id:`) or an equality   *)
(*     with a real id, and both treat None and 0 alike;                    *)
(*   - a text is the sequence of its space-separated words, ' '.join is    *)
(*     concatenation.                                                      *)
(***************************************************************************)
EXTENDS Integers, Sequences, FiniteSets, TLC

VARIABLES
    registry,      \* CatRegistry.cats : id -> cat
    next_id,       \* CatRegistry.next_id
    coefCache,     \* InbreedingCalculator._coefficient_cache : id -> F
    pending,       \* BreedingService._pending_litters : litter id -> kittens
    genetics,      \* GeneticsEngine.genes : gene name -> gene definition
    now,           \* the wall clock, in seconds (datetime.now())
    ret,           \* what the last query returned (op = "none": nothing yet)
    phenotype_cache  \* CatService._phenotype_cache : id -> phenotype text

vars == <<registry, next_id, coefCache, pending, genetics, now, ret, phenotype_cache>>

---------------------------------------------------------------------------
(* Bounds of the model *)

\* cats in the pedigree the walks are run on (ids 1..MaxCats)
MaxCats == 3
\* parent links (non-None sire_id / dam_id fields) a pedigree may hold
MaxLinks == 3
\* largest max_generations handed to check_relatedness
MaxGen == 3

---------------------------------------------------------------------------
(* Python values *)

NoId == 0
NoneVal == -1

Max(a, b) == IF a >= b THEN a ELSE b
Min(a, b) == IF a <= b THEN a ELSE b

\* a dict with one key added or overwritten:  d[k] = v
Put(d, k, v) == [x \in DOMAIN d \cup {k} |-> IF x = k THEN v ELSE d[x]]
\* a dict with one key removed:  del d[k] / d.pop(k, None)
Del(d, k) == [x \in DOMAIN d \ {k} |-> d[x]]
EmptyDict == <<>>
\* f itself, held as an explicit table of its values (each value computed once)
Table(f) == f @@ EmptyDict

\* Cat.__init__: the fields the model keeps
Cat(cat_id, sex, genes, sire_id, dam_id, build_value, size_value, white_percentage) ==
    [id |-> cat_id, sex |-> sex, genes |-> genes, sire_id |-> sire_id, dam_id |-> dam_id,
     build_value |-> build_value, size_value |-> size_value,
     wp |-> white_percentage]

\* every id a walk over reg can meet: the keys, the parent references, and
\* the ids the caller passes in
IdsOf(reg, extra) ==
    DOMAIN reg \cup {reg[c].sire_id : c \in DOMAIN reg}
               \cup {reg[c].dam_id : c \in DOMAIN reg} \cup extra

NoRet == [op |-> "none"]

---------------------------------------------------------------------------
(* BreedingEngine.check_relatedness                                        *)
(*                                                                         *)
(* Every walk below is written level by level: the value of a recursive    *)
(* call depends only on (cat_id, depth), so level `depth` is the function  *)
(* cat_id -> result of the call made with that depth, built from level     *)
(* depth + 1 exactly as the body of the Python function builds it.  Each   *)
(* result carries `deep`, the number of nested recursive calls made below  *)
(* the call (0: it made none), so the recursion depth is observable.       *)

RECURSIVE get_ancestors(_, _, _, _)
get_ancestors(reg, U, max_generations, depth) ==
    IF depth >= max_generations
    THEN [c \in U |-> [val |-> {}, deep |-> 0]]
    ELSE LET below == Table(get_ancestors(reg, U, max_generations, depth + 1))
             none  == [val |-> {}, deep |-> 0]
             call(p) == [val |-> below[p].val, deep |-> 1 + below[p].deep]
         IN  [c \in U |->
                IF c \notin DOMAIN reg THEN none
                ELSE LET cat == reg[c]
                         s == IF cat.sire_id # NoId THEN call(cat.sire_id) ELSE none
                         d == IF cat.dam_id # NoId THEN call(cat.dam_id) ELSE none
                     IN  [val  |-> {c} \cup s.val \cup d.val,
                          deep |-> Max(s.deep, d.deep)]]

check_relatedness(cat1_id, cat2_id, reg, max_generations) ==
    LET U == IdsOf(reg, {cat1_id, cat2_id})
        level0 == get_ancestors(reg, U, max_generations, 0)
        ancestors1 == level0[cat1_id]
        ancestors2 == level0[cat2_id]
        shared == (ancestors1.val \cap ancestors2.val) \ {cat1_id, cat2_id}
    IN  [val  |-> Cardinality(shared) > 0,
         deep |-> Max(ancestors1.deep, ancestors2.deep)]

---------------------------------------------------------------------------
(* DiversityAnalyzer._has_ancestor *)

HasAncestorMaxDepth == 20

RECURSIVE has_ancestor_level(_, _, _, _, _)
has_ancestor_level(reg, U, ancestor_id, depth, max_depth) ==
    IF depth > max_depth
    THEN [c \in U |-> [val |-> FALSE, deep |-> 0]]
    ELSE LET below == Table(has_ancestor_level(reg, U, ancestor_id, depth + 1, max_depth))
             call(p) == [val |-> below[p].val, deep |-> 1 + below[p].deep]
         IN  [c \in U |->
                IF c = ancestor_id THEN [val |-> TRUE, deep |-> 0]
                ELSE IF c \notin DOMAIN reg THEN [val |-> FALSE, deep |-> 0]
                ELSE LET cat == reg[c]
                         \* sire line: the direct test, then the recursive call
                         sHit  == cat.sire_id # NoId /\ cat.sire_id = ancestor_id
                         sCall == cat.sire_id # NoId /\ ~sHit
                         s     == IF sCall THEN call(cat.sire_id)
                                  ELSE [val |-> sHit, deep |-> 0]
                         dHit  == cat.dam_id # NoId /\ cat.dam_id = ancestor_id
                         dCall == cat.dam_id # NoId /\ ~dHit
                         d     == IF dCall THEN call(cat.dam_id)
                                  ELSE [val |-> dHit, deep |-> 0]
                     IN  IF s.val THEN s
                         ELSE [val |-> d.val, deep |-> Max(s.deep, d.deep)]]

has_ancestor(reg, cat_id, ancestor_id) ==
    has_ancestor_level(reg, IdsOf(reg, {cat_id, ancestor_id}), ancestor_id, 0,
                       HasAncestorMaxDepth)[cat_id]

(* DiversityAnalyzer.calculate_founder_contribution: for every cat without *)
(* parents, the number of registered cats for which _has_ancestor(cat.id,  *)
(* founder.id) is true (_calculate_ancestor_contribution), the population  *)
(* size and the percentage descendants / total_cats * 100 kept as the      *)
(* fraction <<descendants * 100, total_cats>>.                             *)
calculate_founder_contribution(reg) ==
    LET founders == {c \in DOMAIN reg : reg[c].sire_id = NoId /\ reg[c].dam_id = NoId}
        current_generation == DOMAIN reg
        descendants(f) == Cardinality({c \in current_generation : has_ancestor(reg, c, f).val})
        depths == {has_ancestor(reg, c, f).deep : c \in current_generation, f \in founders}
    IN  [val |-> [f \in founders |->
                    [descendants |-> descendants(f),
                     total_cats |-> Cardinality(current_generation),
                     percentage |-> <<descendants(f) * 100, Cardinality(current_generation)>>]],
         deep |-> IF depths = {} THEN 0 ELSE CHOOSE d \in depths : \A e \in depths : e <= d]

---------------------------------------------------------------------------
(* RegistryValidator._is_own_ancestor *)

OwnAncestorMaxDepth == 20

RECURSIVE is_own_ancestor_level(_, _, _, _, _)
is_own_ancestor_level(reg, U, ancestor_id, depth, max_depth) ==
    IF depth > max_depth
    THEN [c \in U |-> [val |-> FALSE, deep |-> 0]]
    ELSE LET below == Table(is_own_ancestor_level(reg, U, ancestor_id, depth + 1, max_depth))
             call(p) == [val |-> below[p].val, deep |-> 1 + below[p].deep]
             no == [val |-> FALSE, deep |-> 0]
         IN  [c \in U |->
                IF c \notin DOMAIN reg THEN no
                ELSE LET cat == reg[c]
                         hit == (cat.sire_id = ancestor_id \/ cat.dam_id = ancestor_id)
                                /\ depth > 0
                         s == IF cat.sire_id # NoId THEN call(cat.sire_id) ELSE no
                         d == IF cat.dam_id # NoId THEN call(cat.dam_id) ELSE no
                     IN  IF hit THEN [val |-> TRUE, deep |-> 0]
                         ELSE IF s.val THEN s
                         ELSE [val |-> d.val, deep |-> Max(s.deep, d.deep)]]

\* a check that looks at the cat's own parent fields only
is_own_ancestor_parents_only(reg, cat_id, ancestor_id, depth) ==
    [val |-> /\ cat_id \in DOMAIN reg
             /\ (reg[cat_id].sire_id = ancestor_id \/ reg[cat_id].dam_id = ancestor_id),
     deep |-> 0]

is_own_ancestor(reg, cat_id, ancestor_id, depth) ==
    is_own_ancestor_level(reg, IdsOf(reg, {cat_id, ancestor_id}), ancestor_id, depth,
                          OwnAncestorMaxDepth)[cat_id]

\* RegistryValidator._check_circular_pedigrees, run by validate_registry: the
\* cats for which a CIRCULAR_PEDIGREE error is added to the report
check_circular_pedigrees(reg) ==
    LET walks == [c \in DOMAIN reg |-> is_own_ancestor(reg, c, c, 0)]
        depths == {walks[c].deep : c \in DOMAIN reg}
    IN  [val |-> {c \in DOMAIN reg : walks[c].val},
         deep |-> IF depths = {} THEN 0 ELSE CHOOSE d \in depths : \A e \in depths : e <= d]

---------------------------------------------------------------------------
(* InbreedingCalculator._get_all_ancestors, _find_common_ancestors,        *)
(* _find_all_paths                                                         *)

RECURSIVE Inb_get_all_ancestors_level(_, _, _)
Inb_get_all_ancestors_level(reg, U, depth) ==
    IF depth <= 0
    THEN [c \in U |-> [val |-> {}, deep |-> 0]]
    ELSE LET below == Table(Inb_get_all_ancestors_level(reg, U, depth - 1))
             none  == [val |-> {}, deep |-> 0]
             call(p) == [val |-> {p} \cup below[p].val, deep |-> 1 + below[p].deep]
         IN  [c \in U |->
                IF c \notin DOMAIN reg THEN none
                ELSE LET cat == reg[c]
                         s == IF cat.sire_id # NoId THEN call(cat.sire_id) ELSE none
                         d == IF cat.dam_id # NoId THEN call(cat.dam_id) ELSE none
                     IN  [val |-> s.val \cup d.val, deep |-> Max(s.deep, d.deep)]]

Inb_get_all_ancestors(reg, cat_id, depth) ==
    Inb_get_all_ancestors_level(reg, IdsOf(reg, {cat_id}), depth)[cat_id]

CommonAncestorDepth == 10

\* the intersection taken over the two cats together with their ancestors
find_common_ancestors_with_selves(reg, cat1_id, cat2_id) ==
    ({cat1_id} \cup Inb_get_all_ancestors(reg, cat1_id, CommonAncestorDepth).val)
        \cap ({cat2_id} \cup Inb_get_all_ancestors(reg, cat2_id, CommonAncestorDepth).val)

find_common_ancestors(reg, cat1_id, cat2_id) ==
    Inb_get_all_ancestors(reg, cat1_id, CommonAncestorDepth).val
        \cap Inb_get_all_ancestors(reg, cat2_id, CommonAncestorDepth).val

InList(x, list) == \E i \in 1 .. Len(list) : list[i] = x

FindPathsMaxDepth == 10

\* the recursion carries current_path, so it is written as the code runs it;
\* the `not in current_path` test keeps it to simple paths
RECURSIVE find_all_paths_from(_, _, _, _, _, _)
find_all_paths_from(reg, start_id, target_id, current_path, depth, max_depth) ==
    IF depth > max_depth THEN [val |-> <<>>, deep |-> 0]
    ELSE IF start_id = target_id THEN [val |-> <<current_path>>, deep |-> 0]
    ELSE IF start_id \notin DOMAIN reg THEN [val |-> <<>>, deep |-> 0]
    ELSE LET cat == reg[start_id]
             none == [val |-> <<>>, deep |-> 0]
             call(p) == LET r == find_all_paths_from(reg, p, target_id,
                                     Append(current_path, start_id), depth + 1, max_depth)
                        IN  [val |-> r.val, deep |-> 1 + r.deep]
             s == IF cat.sire_id # NoId /\ ~InList(cat.sire_id, current_path)
                  THEN call(cat.sire_id) ELSE none
             d == IF cat.dam_id # NoId /\ ~InList(cat.dam_id, current_path)
                  THEN call(cat.dam_id) ELSE none
         IN  [val |-> s.val \o d.val, deep |-> Max(s.deep, d.deep)]

find_all_paths(reg, start_id, target_id) ==
    find_all_paths_from(reg, start_id, target_id, <<>>, 0, FindPathsMaxDepth)

---------------------------------------------------------------------------
(* PedigreeAnalyzer._get_all_ancestors, _get_ancestors_at_generation,      *)
(* _count_paths_to_ancestor, find_pedigree_loops                           *)

RECURSIVE Ped_get_all_ancestors_level(_, _, _)
Ped_get_all_ancestors_level(reg, U, depth) ==
    IF depth <= 0
    THEN [c \in U |-> [val |-> {}, deep |-> 0]]
    ELSE LET below == Table(Ped_get_all_ancestors_level(reg, U, depth - 1))
             none  == [val |-> {}, deep |-> 0]
             call(p) == [val |-> {p} \cup below[p].val, deep |-> 1 + below[p].deep]
         IN  [c \in U |->
                IF c \notin DOMAIN reg THEN none
                ELSE LET cat == reg[c]
                         s == IF cat.sire_id # NoId THEN call(cat.sire_id) ELSE none
                         d == IF cat.dam_id # NoId THEN call(cat.dam_id) ELSE none
                     IN  [val |-> s.val \cup d.val, deep |-> Max(s.deep, d.deep)]]

Ped_get_all_ancestors(reg, cat_id, depth) ==
    Ped_get_all_ancestors_level(reg, IdsOf(reg, {cat_id}), depth)[cat_id]

\* called by calculate_pedigree_completeness with generation in 1..generations
RECURSIVE ancestors_at_generation_level(_, _, _)
ancestors_at_generation_level(reg, U, generation) ==
    IF generation = 0
    THEN [c \in U |-> [val |-> {c}, deep |-> 0]]
    ELSE IF generation = 1
    THEN [c \in U |->
            [val |-> IF c \notin DOMAIN reg THEN {}
                     ELSE {reg[c].sire_id, reg[c].dam_id} \ {NoId},
             deep |-> 0]]
    ELSE LET below == Table(ancestors_at_generation_level(reg, U, generation - 1))
             none  == [val |-> {}, deep |-> 0]
             call(p) == [val |-> below[p].val, deep |-> 1 + below[p].deep]
         IN  [c \in U |->
                IF c \notin DOMAIN reg THEN none
                ELSE LET cat == reg[c]
                         s == IF cat.sire_id # NoId THEN call(cat.sire_id) ELSE none
                         d == IF cat.dam_id # NoId THEN call(cat.dam_id) ELSE none
                     IN  [val |-> s.val \cup d.val, deep |-> Max(s.deep, d.deep)]]

get_ancestors_at_generation(reg, cat_id, generation) ==
    ancestors_at_generation_level(reg, IdsOf(reg, {cat_id}), generation)[cat_id]

CountPathsMaxDepth == 10

RECURSIVE count_paths_level(_, _, _, _, _)
count_paths_level(reg, U, ancestor_id, depth, max_depth) ==
    IF depth > max_depth
    THEN [c \in U |-> [val |-> 0, deep |-> 0]]
    ELSE LET below == Table(count_paths_level(reg, U, ancestor_id, depth + 1, max_depth))
             none  == [val |-> 0, deep |-> 0]
             call(p) == [val |-> below[p].val, deep |-> 1 + below[p].deep]
         IN  [c \in U |->
                IF c = ancestor_id THEN [val |-> 1, deep |-> 0]
                ELSE IF c \notin DOMAIN reg THEN none
                ELSE LET cat == reg[c]
                         s == IF cat.sire_id # NoId THEN call(cat.sire_id) ELSE none
                         d == IF cat.dam_id # NoId THEN call(cat.dam_id) ELSE none
                     IN  [val |-> s.val + d.val, deep |-> Max(s.deep, d.deep)]]

\* the walk with its depth guard two levels late
count_paths_guard_late(reg, cat_id, ancestor_id) ==
    count_paths_level(reg, IdsOf(reg, {cat_id, ancestor_id}), ancestor_id, 0,
                      CountPathsMaxDepth + 2)[cat_id]

\* the walk telling one path from several only: a count above 2 reads 2
count_paths_once_or_more(reg, cat_id, ancestor_id) ==
    LET r == count_paths_level(reg, IdsOf(reg, {cat_id, ancestor_id}), ancestor_id, 0,
                               CountPathsMaxDepth)[cat_id]
    IN  [val |-> Min(r.val, 2), deep |-> r.deep]

count_paths_to_ancestor(reg, cat_id, ancestor_id) ==
    count_paths_level(reg, IdsOf(reg, {cat_id, ancestor_id}), ancestor_id, 0,
                      CountPathsMaxDepth)[cat_id]

LoopAncestorDepth == 10

\* the list of loops, kept as the set of its entries (one per ancestor);
\* deep is the deepest recursion of any walk the call makes
find_pedigree_loops(reg, cat_id) ==
    LET anc == Ped_get_all_ancestors(reg, cat_id, LoopAncestorDepth)
        n(a) == count_paths_to_ancestor(reg, cat_id, a)
        deeps == {anc.deep} \cup {n(a).deep : a \in anc.val}
    IN  [val  |-> {[ancestor_id |-> a, occurrences |-> n(a).val] :
                      a \in {x \in anc.val : n(x).val > 1}},
         deep |-> CHOOSE m \in deeps : \A k \in deeps : k <= m]

---------------------------------------------------------------------------
(* InbreedingCalculator.calculate_coefficient                              *)
(*                                                                         *)
(* F is a float built only from powers of 0.5, sums and products: a dyadic *)
(* rational, kept exactly as <<num, exp>> = num / 2^exp in lowest terms.   *)

RECURSIVE Pow2(_)
Pow2(n) == IF n <= 0 THEN 1 ELSE 2 * Pow2(n - 1)

RECURSIVE Dyadic(_, _)
Dyadic(num, exp) ==
    IF num = 0 THEN <<0, 0>>
    ELSE IF exp > 0 /\ num % 2 = 0 THEN Dyadic(num \div 2, exp - 1)
    ELSE <<num, exp>>

FZero == <<0, 0>>
FAdd(x, y) ==
    LET e == Max(x[2], y[2])
    IN  Dyadic(x[1] * Pow2(e - x[2]) + y[1] * Pow2(e - y[2]), e)
\* (0.5 ** n) * (1 + f_a)
FTerm(n, f_a) == Dyadic(Pow2(f_a[2]) + f_a[1], f_a[2] + n)
\* x > num / 2^exp
FGreater(x, y) ==
    LET e == Max(x[2], y[2])
    IN  x[1] * Pow2(e - x[2]) > y[1] * Pow2(e - y[2])
FGeq(x, y) == x = y \/ FGreater(x, y)

\* the elements of a set of ids in ascending order: the order in which
\* CPython iterates a set of small ints
RECURSIVE Ascending(_)
Ascending(S) ==
    IF S = {} THEN <<>>
    ELSE LET m == CHOOSE x \in S : \A y \in S : x <= y
         IN  <<m>> \o Ascending(S \ {m})

\* frames CPython allows before it raises RecursionError
\* (sys.getrecursionlimit(), 1000 by default; small here)
StackLimit == 6

(* calculate_coefficient(cat_id) run with the cache `cache` at nesting      *)
(* level `frame`: [f, cache, raised, deep].  raised = TRUE is the           *)
(* RecursionError CPython raises when the recursion on the common           *)
(* ancestor's own coefficient exceeds the frame limit; it propagates        *)
(* through every caller (nothing in the class catches it).                  *)
RECURSIVE coefficient_call(_, _, _, _)
RECURSIVE coefficient_pairs(_, _, _, _, _, _, _, _)
RECURSIVE coefficient_ancestors(_, _, _, _, _, _)

\* the same loop with the sire's path counted twice and the dam's path not
\* at all
coefficient_pairs_sire_path_only(reg, ancestor_id, paths_sire, paths_dam, k, st, frame, total) ==
    IF k >= total \/ st.raised THEN st
    ELSE LET path_s == paths_sire[(k \div Len(paths_dam)) + 1]
             n == 2 * Len(path_s)
             r == coefficient_call(reg, st.cache, ancestor_id, frame + 1)
             st2 == [f |-> IF r.raised THEN st.f ELSE FAdd(st.f, FTerm(n, r.f)),
                     cache |-> r.cache, raised |-> r.raised,
                     deep |-> Max(st.deep, 1 + r.deep)]
         IN  coefficient_pairs(reg, ancestor_id, paths_sire, paths_dam, k + 1, st2,
                               frame, total)

\* for path_s in paths_sire: for path_d in paths_dam: (lines 347-354);
\* k counts the pairs done, st = [f, cache, raised, deep]
coefficient_pairs(reg, ancestor_id, paths_sire, paths_dam, k, st, frame, total) ==
    IF k >= total \/ st.raised THEN st
    ELSE LET path_s == paths_sire[(k \div Len(paths_dam)) + 1]
             path_d == paths_dam[(k % Len(paths_dam)) + 1]
             n == Len(path_s) + Len(path_d)
             r == coefficient_call(reg, st.cache, ancestor_id, frame + 1)
             st2 == [f |-> IF r.raised THEN st.f ELSE FAdd(st.f, FTerm(n, r.f)),
                     cache |-> r.cache, raised |-> r.raised,
                     deep |-> Max(st.deep, 1 + r.deep)]
         IN  coefficient_pairs(reg, ancestor_id, paths_sire, paths_dam, k + 1, st2,
                               frame, total)

\* for ancestor_id in common_ancestors: (lines 341-354)
coefficient_ancestors(reg, cat, ancestors, i, st, frame) ==
    IF i > Len(ancestors) \/ st.raised THEN st
    ELSE LET ancestor_id == ancestors[i]
             paths_sire == find_all_paths(reg, cat.sire_id, ancestor_id).val
             paths_dam == find_all_paths(reg, cat.dam_id, ancestor_id).val
             st2 == coefficient_pairs(reg, ancestor_id, paths_sire, paths_dam, 0, st,
                                      frame, Len(paths_sire) * Len(paths_dam))
         IN  coefficient_ancestors(reg, cat, ancestors, i + 1, st2, frame)

coefficient_call(reg, cache, cat_id, frame) ==
    IF frame > StackLimit
    THEN [f |-> FZero, cache |-> cache, raised |-> TRUE, deep |-> 0]
    ELSE IF cat_id \in DOMAIN cache
    THEN [f |-> cache[cat_id], cache |-> cache, raised |-> FALSE, deep |-> 0]
    ELSE IF cat_id \notin DOMAIN reg
    THEN [f |-> FZero, cache |-> cache, raised |-> FALSE, deep |-> 0]
    ELSE IF reg[cat_id].sire_id = NoId \/ reg[cat_id].dam_id = NoId
    THEN [f |-> FZero, cache |-> cache, raised |-> FALSE, deep |-> 0]
    ELSE LET cat == reg[cat_id]
             common_ancestors == find_common_ancestors(reg, cat.sire_id, cat.dam_id)
         IN  IF common_ancestors = {}
             THEN [f |-> FZero, cache |-> Put(cache, cat_id, FZero),
                   raised |-> FALSE, deep |-> 0]
             ELSE LET st == coefficient_ancestors(reg, cat, Ascending(common_ancestors), 1,
                               [f |-> FZero, cache |-> cache, raised |-> FALSE, deep |-> 0],
                               frame)
                  IN  IF st.raised THEN st
                      ELSE [f |-> st.f, cache |-> Put(st.cache, cat_id, st.f),
                            raised |-> FALSE, deep |-> st.deep]

calculate_coefficient(reg, cache, cat_id) == coefficient_call(reg, cache, cat_id, 1)

\* InbreedingCalculator._describe_relationship
describe_relationship(f) ==
    IF FGeq(f, <<1, 2>>) THEN "Parent-offspring or sibling mating"
    ELSE IF FGeq(f, <<1, 3>>) THEN "Half-sibling or grandparent-grandchild mating"
    ELSE IF FGeq(f, <<1, 4>>) THEN "First cousin mating"
    ELSE IF FGeq(f, <<1, 5>>) THEN "Second cousin mating"
    ELSE "Distant relationship"

\* the default threshold of find_inbred_cats, 0.0625
InbredThreshold == <<1, 4>>

\* sorted(inbred_cats, key = coefficient, reverse = True): a stable sort, so
\* entries of equal coefficient keep the order in which they were appended
RECURSIVE sorted_by_coefficient(_)
sorted_by_coefficient(list) ==
    IF list = <<>> THEN <<>>
    ELSE LET head == sorted_by_coefficient(SubSeq(list, 1, Len(list) - 1))
             x == list[Len(list)]
             before == SelectSeq(head, LAMBDA e : FGeq(e.coefficient, x.coefficient))
             after == SelectSeq(head, LAMBDA e : ~FGeq(e.coefficient, x.coefficient))
         IN  before \o <<x>> \o after

\* one pass of the loop of find_inbred_cats, for the cat cat_id (r is what
\* calculate_coefficient returned); st = [cache, raised, list, deep]
find_inbred_step(reg, threshold, st, cat_id) ==
    LET cat == reg[cat_id]
        entry(f) == [id |-> cat.id, coefficient |-> f,
                     common_ancestors |->
                         find_common_ancestors(reg, cat.sire_id, cat.dam_id),
                     relationship |-> describe_relationship(f)]
    IN  IF st.raised \/ cat.sire_id = NoId \/ cat.dam_id = NoId THEN st
        ELSE CHOOSE out \in
                 {[cache |-> r.cache, raised |-> r.raised,
                   list |-> IF ~r.raised /\ FGreater(r.f, threshold)
                            THEN Append(st.list, entry(r.f)) ELSE st.list,
                   deep |-> Max(st.deep, r.deep)] :
                      r \in {calculate_coefficient(reg, st.cache, cat.id)}} : TRUE

\* the loop of find_inbred_cats over registry.get_all_cats() (the cats in
\* the order of their ids, the order in which the registry was filled):
\* after[i] is the state after the first i cats, each computed once from
\* the one before
find_inbred_loop(reg, ids, threshold, st) ==
    LET after[i \in 0 .. Len(ids)] ==
            IF i = 0 THEN st
            ELSE CHOOSE out \in {find_inbred_step(reg, threshold, s, ids[i]) :
                                    s \in {after[i - 1]}} : TRUE
    IN  after[Len(ids)]

\* find_inbred_cats(threshold): [val, cache, raised, deep]
find_inbred_cats(reg, cache, threshold) ==
    LET done == {find_inbred_loop(reg, Ascending(DOMAIN reg), threshold,
                     [cache |-> cache, raised |-> FALSE, list |-> <<>>, deep |-> 0])}
    IN  CHOOSE out \in {[val |-> IF st.raised THEN <<>> ELSE sorted_by_coefficient(st.list),
                          cache |-> st.cache, raised |-> st.raised, deep |-> st.deep] :
                            st \in done} : TRUE

---------------------------------------------------------------------------
(* The pedigree specification: a registry of MaxCats cats whose parent     *)
(* fields are edited freely (the editor dialog stores whatever ids are     *)
(* typed), then one analytics call on it.                                  *)

PedIds == 1 .. MaxCats
\* ids a parent field may hold: a registered cat or one id that is not
PedRefs == 0 .. (MaxCats + 1)

PlainCat(cat_id, sire_id, dam_id) ==
    Cat(cat_id, "female", EmptyDict, sire_id, dam_id, 50, 50, NoneVal)

LinkCount(reg) ==
    Cardinality({c \in DOMAIN reg : reg[c].sire_id # NoId})
  + Cardinality({c \in DOMAIN reg : reg[c].dam_id # NoId})

PedInit ==
    /\ registry = [c \in PedIds |-> PlainCat(c, NoId, NoId)]
    /\ next_id = MaxCats + 1
    /\ coefCache = EmptyDict
    /\ pending = EmptyDict
    /\ genetics = EmptyDict
    /\ now = 1
    /\ phenotype_cache = EmptyDict
    /\ ret = NoRet

\* CatEditorDialog.save_cat on an existing cat: sire_id and dam_id are
\* assigned as typed, without validation, then cat.invalidate_cache()
EditParents(c, sire_id, dam_id) ==
    /\ ret.op = "none"
    /\ c \in DOMAIN registry
    /\ LET reg2 == [registry EXCEPT ![c].sire_id = sire_id, ![c].dam_id = dam_id,
                                     ![c].wp = NoneVal]
       IN  /\ reg2 # registry
           /\ LinkCount(reg2) <= MaxLinks
           /\ registry' = reg2
    /\ UNCHANGED <<next_id, coefCache, pending, genetics, now, ret, phenotype_cache>>

\* one analytics call on the registry as it stands
Returned(op, a, b, n, r) ==
    /\ ret.op = "none"
    /\ ret' = [op |-> op, a |-> a, b |-> b, n |-> n, val |-> r.val, deep |-> r.deep]
    /\ UNCHANGED <<registry, next_id, coefCache, pending, genetics, now, phenotype_cache>>

Call_check_relatedness(a, b, n) ==
    Returned("check_relatedness", a, b, n, check_relatedness(a, b, registry, n))

Call_has_ancestor(a, b) ==
    Returned("has_ancestor", a, b, 0, has_ancestor(registry, a, b))

\* RegistryValidator._check_circular_pedigrees: _is_own_ancestor(cat.id, cat.id, depth=0)
Call_is_own_ancestor(a) ==
    /\ a \in DOMAIN registry
    /\ Returned("is_own_ancestor", a, a, 0, is_own_ancestor(registry, a, a, 0))

Call_Inb_get_all_ancestors(a, depth) ==
    Returned("Inb_get_all_ancestors", a, 0, depth, Inb_get_all_ancestors(registry, a, depth))

Call_find_all_paths(a, b) ==
    Returned("find_all_paths", a, b, 0, find_all_paths(registry, a, b))

Call_Ped_get_all_ancestors(a, depth) ==
    Returned("Ped_get_all_ancestors", a, 0, depth, Ped_get_all_ancestors(registry, a, depth))

Call_get_ancestors_at_generation(a, gen) ==
    Returned("get_ancestors_at_generation", a, 0, gen,
             get_ancestors_at_generation(registry, a, gen))

Call_count_paths_to_ancestor(a, b) ==
    Returned("count_paths_to_ancestor", a, b, 0, count_paths_to_ancestor(registry, a, b))

Call_find_pedigree_loops(a) ==
    Returned("find_pedigree_loops", a, 0, 0, find_pedigree_loops(registry, a))

\* calculate_coefficient on a calculator whose cache is empty; the call
\* either returns F and fills the cache or ends in RecursionError
Call_calculate_coefficient(a) ==
    /\ ret.op = "none"
    /\ LET r == calculate_coefficient(registry, coefCache, a)
       IN  /\ ret' = [op |-> "calculate_coefficient", a |-> a, b |-> 0, n |-> 0,
                      val |-> r.f, deep |-> r.deep, raised |-> r.raised]
           /\ coefCache' = r.cache
    /\ UNCHANGED <<registry, next_id, pending, genetics, now, phenotype_cache>>

Call_check_circular_pedigrees ==
    Returned("check_circular_pedigrees", 0, 0, 0, check_circular_pedigrees(registry))

Call_calculate_founder_contribution ==
    Returned("calculate_founder_contribution", 0, 0, 0, calculate_founder_contribution(registry))

\* depth arguments the callers pass to _get_all_ancestors: 10
\* (_find_common_ancestors, find_pedigree_loops) and the generations of
\* calculate_pedigree_completeness (1..MaxGen here)
AncestorDepths == (1 .. MaxGen) \cup {CommonAncestorDepth}

PedArgs == PedRefs \ {NoId}

PedNext ==
    \/ \E c \in PedIds, s \in PedRefs, d \in PedRefs : EditParents(c, s, d)
    \/ \E a \in PedArgs, b \in PedArgs, n \in 1 .. MaxGen : Call_check_relatedness(a, b, n)
    \/ \E a \in PedArgs, b \in PedArgs : Call_has_ancestor(a, b)
    \/ \E a \in PedArgs : Call_is_own_ancestor(a)
    \/ \E a \in PedArgs, depth \in AncestorDepths : Call_Inb_get_all_ancestors(a, depth)
    \/ \E a \in PedArgs, b \in PedArgs : Call_find_all_paths(a, b)
    \/ \E a \in PedArgs, depth \in AncestorDepths : Call_Ped_get_all_ancestors(a, depth)
    \/ \E a \in PedArgs, gen \in 1 .. MaxGen : Call_get_ancestors_at_generation(a, gen)
    \/ \E a \in PedArgs, b \in PedArgs : Call_count_paths_to_ancestor(a, b)
    \/ \E a \in PedArgs : Call_find_pedigree_loops(a)
    \/ \E a \in PedArgs : Call_calculate_coefficient(a)
    \/ Call_calculate_founder_contribution
    \/ Call_check_circular_pedigrees

PedSpec == PedInit /\ [][PedNext]_vars

---------------------------------------------------------------------------
(* Pedigree vocabulary of the claims (not code) *)

Parents(reg, c) ==
    IF c \in DOMAIN reg THEN {reg[c].sire_id, reg[c].dam_id} \ {NoId} ELSE {}

\* ids reached from c by exactly k parent hops
RECURSIVE HopsExactly(_, _, _)
HopsExactly(reg, c, k) ==
    IF k = 0 THEN {c}
    ELSE UNION {Parents(reg, x) : x \in HopsExactly(reg, c, k - 1)}

\* ids reached from c by 1..n parent hops
HopsWithin(reg, c, n) == UNION {HopsExactly(reg, c, k) : k \in 1 .. n}

IsFounder(reg, c) == c \in DOMAIN reg /\ reg[c].sire_id = NoId /\ reg[c].dam_id = NoId

\* c lies on a parent cycle of exactly three distinct cats
OnThreeCycle(reg, c) ==
    \E x \in DOMAIN reg, y \in DOMAIN reg :
        /\ Cardinality({c, x, y}) = 3
        /\ x \in Parents(reg, c) /\ y \in Parents(reg, x) /\ c \in Parents(reg, y)

---------------------------------------------------------------------------
(* Claims on the pedigree specification *)

\* C3: calculate_coefficient(id) terminates and returns a value on every
\* finite registry, cyclic ones included: the call never ends in an
\* unbounded recursion (RecursionError).
C3_CoefficientAlwaysReturns ==
    ret.op = "calculate_coefficient" => ~ret.raised

\* C4: on every registry, cyclic or with dangling parent ids, each ancestry
\* walk returns, and the number of nested recursive calls it makes is at most
\* its bound: the depth / generation / max_generations argument for the
\* walks that count it down or up to it, the constant 10 or 20 plus the one
\* level that only tests the guard for the others.
C4_WalksDepthBounded ==
    /\ ret.op \in {"check_relatedness", "Inb_get_all_ancestors",
                   "Ped_get_all_ancestors", "get_ancestors_at_generation"}
          => ret.deep <= ret.n
    /\ ret.op = "find_all_paths" => ret.deep <= FindPathsMaxDepth + 1
    /\ ret.op \in {"count_paths_to_ancestor", "find_pedigree_loops"}
          => ret.deep <= CountPathsMaxDepth + 1
    /\ ret.op = "has_ancestor" => ret.deep <= HasAncestorMaxDepth + 1
    /\ ret.op = "is_own_ancestor" => ret.deep <= OwnAncestorMaxDepth + 1
    /\ ret.op \in {"check_relatedness", "has_ancestor", "is_own_ancestor"}
          => ret.val \in BOOLEAN
    /\ ret.op = "count_paths_to_ancestor" => ret.val \in Nat

\* C4 witness: _count_paths_to_ancestor has run from a cat on a three-cat
\* parent cycle towards an id that is not registered, and went round the
\* cycle until the depth guard stopped it.
C4_Witness ==
    /\ ret.op = "count_paths_to_ancestor"
    /\ OnThreeCycle(registry, ret.a)
    /\ ret.b \notin DOMAIN registry
    /\ ret.deep = CountPathsMaxDepth + 1
    /\ ret.val = 0

\* C5: for a cat A on a three-cat parent cycle, find_pedigree_loops(A)
\* returns a non-empty list of loops.
C5_LoopReported ==
    (ret.op = "find_pedigree_loops" /\ OnThreeCycle(registry, ret.a))
        => ret.val # {}

\* C6: check_relatedness of two founders is false, and check_relatedness of
\* an offspring O of founders F1 x F2 with F1 (or F2) is true for every
\* generation bound >= 1.
C6_FoundersAndOffspring ==
    ret.op = "check_relatedness" =>
        /\ (IsFounder(registry, ret.a) /\ IsFounder(registry, ret.b) /\ ret.a # ret.b)
              => ret.val = FALSE
        /\ ( /\ ret.a \in DOMAIN registry
             /\ registry[ret.a].sire_id # NoId /\ registry[ret.a].dam_id # NoId
             /\ registry[ret.a].sire_id # registry[ret.a].dam_id
             /\ IsFounder(registry, registry[ret.a].sire_id)
             /\ IsFounder(registry, registry[ret.a].dam_id)
             /\ ret.b \in Parents(registry, ret.a) )
              => ret.val = TRUE

\* C7: for two different cats id1 and id2,
\* check_relatedness(id1, id2, registry, n) is true exactly when some id
\* other than id1 and id2 is reached from id1 by 1..n parent hops and also
\* from id2 by 1..n parent hops.
C7_RelatedIffSharedWithinN ==
    (ret.op = "check_relatedness" /\ ret.a # ret.b) =>
        ret.val = ( (HopsWithin(registry, ret.a, ret.n)
                        \cap HopsWithin(registry, ret.b, ret.n)) \ {ret.a, ret.b} # {} )

\* the registered cat c has both parents recorded
HasBothParents(reg, c) ==
    c \in DOMAIN reg /\ reg[c].sire_id # NoId /\ reg[c].dam_id # NoId

\* ids reached within the ancestor bound from both parents of c
SharedAncestors(reg, c) ==
    HopsWithin(reg, reg[c].sire_id, CommonAncestorDepth)
        \cap HopsWithin(reg, reg[c].dam_id, CommonAncestorDepth)

---------------------------------------------------------------------------
(* GeneticsEngine                                                           *)

\* dict.get(k, default)
Get(d, k, default) == IF k \in DOMAIN d THEN d[k] ELSE default

\* the allele get_dominant_allele returns for an empty list (None)
NoAllele == "None"

\* number of elements of a list equal to x:  sum(1 for a in list if a == x)
CountOf(x, list) == Cardinality({i \in DOMAIN list : list[i] = x})

get_dominant_allele(gene_name, alleles) ==
    IF gene_name \notin DOMAIN genetics \/ Len(alleles) = 1
    THEN IF alleles # <<>> THEN alleles[1] ELSE NoAllele
    ELSE LET gene == genetics[gene_name]
             dom1 == Get(gene.dominance, alleles[1], 0)
             dom2 == Get(gene.dominance, alleles[2], 0)
         IN  IF dom1 >= dom2 THEN alleles[1] ELSE alleles[2]

---------------------------------------------------------------------------
(* PhenotypeCalculator.  A text is the sequence of its words; a call that   *)
(* can reach get_white_percentage returns [val, wp]: the value and the      *)
(* _white_percentage the cat holds afterwards.  `draw` is the number        *)
(* random.choices returns if the call gets that far.                        *)

\* range(1, 51) / range(50, 100): every weight is positive, so every member
\* can be drawn
OneWsChoices == 1 .. 50
TwoWsChoices == 50 .. 99

\* what random.choices can return in get_white_percentage for this cat
\* ({0} : the call draws nothing)
white_choices(cat) ==
    LET white_alleles == Get(cat.genes, "white", <<>>)
        ws_count == CountOf("Ws", white_alleles)
    IN  IF cat.wp # NoneVal \/ InList("Wd", white_alleles) \/ ws_count = 0 THEN {0}
        ELSE IF ws_count = 1 THEN OneWsChoices
        ELSE TwoWsChoices

\* the percentage computed from the genotype whatever the cat already holds
get_white_percentage_recomputed(cat, draw) ==
    LET white_alleles == Get(cat.genes, "white", <<>>)
    IN  IF InList("Wd", white_alleles) THEN [val |-> 100, wp |-> 100]
        ELSE LET ws_count == CountOf("Ws", white_alleles)
             IN  IF ws_count = 0 THEN [val |-> 0, wp |-> 0]
                 ELSE [val |-> draw, wp |-> draw]

get_white_percentage(cat, draw) ==
    IF cat.wp # NoneVal THEN [val |-> cat.wp, wp |-> cat.wp]
    ELSE LET white_alleles == Get(cat.genes, "white", <<>>)
         IN  IF InList("Wd", white_alleles) THEN [val |-> 100, wp |-> 100]
             ELSE LET ws_count == CountOf("Ws", white_alleles)
                  IN  IF ws_count = 0 THEN [val |-> 0, wp |-> 0]
                      ELSE [val |-> draw, wp |-> draw]

\* None is the empty text
get_white_description(cat, draw) ==
    LET r == get_white_percentage(cat, draw)
        pct == r.val
    IN  [val |-> IF pct = 0 THEN <<>>
                 ELSE IF pct = 100 THEN <<"White">>
                 ELSE IF pct < 35 THEN <<"with", "Low", "White">>
                 ELSE IF pct < 65 THEN <<"Bicolor">>
                 ELSE <<"with", "High", "White">>,
         wp |-> r.wp]

get_red_expression(cat) ==
    LET red_alleles == Get(cat.genes, "red", <<"o">>)
    IN  IF cat.sex = "male"
        THEN IF red_alleles[1] = "O" THEN "red" ELSE "non-red"
        ELSE IF InList("O", red_alleles) /\ InList("o", red_alleles) THEN "tortie"
        ELSE IF red_alleles[1] = "O" /\ red_alleles[2] = "O" THEN "red"
        ELSE "non-red"

\* the level counted over every allele of the locus, wb included
get_wideband_level_any_allele(cat) == Len(Get(cat.genes, "wide_band", <<"wb", "wb">>))

get_wideband_level(cat) == CountOf("Wb", Get(cat.genes, "wide_band", <<"wb", "wb">>))

apply_breed_naming(color, pattern) ==
    IF pattern = <<"Ticked">>
    THEN IF color = "Black" THEN "Ruddy"
         ELSE IF color = "Cinnamon" THEN "Sorrel"
         ELSE color
    ELSE color

get_tabby_pattern(cat, is_red) ==
    LET agouti == get_dominant_allele("agouti", Get(cat.genes, "agouti", <<"A">>))
        has_bengal == InList("Bm", Get(cat.genes, "bengal", <<>>))
        ticked == get_dominant_allele("ticked", Get(cat.genes, "ticked", <<"ta">>))
        tabby == get_dominant_allele("tabby", Get(cat.genes, "tabby", <<"Mc">>))
        spotted == get_dominant_allele("spotted", Get(cat.genes, "spotted", <<"sp">>))
    IN  IF agouti = "Apb" /\ ~is_red
        THEN IF ticked = "Ta" THEN <<"Midnight", "Charcoal">>
             ELSE <<"Twilight", "Charcoal">>
        ELSE IF ticked = "Ta" THEN <<"Ticked">>
        ELSE IF tabby = "mc"
        THEN IF spotted = "Sp"
             THEN (IF has_bengal THEN <<"Rosetted">> ELSE <<"Spotted">>)
             ELSE (IF has_bengal THEN <<"Marbled">> ELSE <<"Classic">>)
        ELSE IF spotted = "Sp"
             THEN (IF has_bengal THEN <<"Broken", "Braided">> ELSE <<"Broken", "Mackerel">>)
             ELSE (IF has_bengal THEN <<"Braided">> ELSE <<"Mackerel">>)

\* text.replace('Black', 'Seal'): 'Black' occurs in no other word of a phrase
ReplaceBlack(text) == [i \in DOMAIN text |-> IF text[i] = "Black" THEN "Seal" ELSE text[i]]

\* the colour phrase with the dominant restriction allele tested before mink
build_color_pattern_point_before_mink(cat, red_expression, draw) ==
    LET base == get_dominant_allele("base_color", Get(cat.genes, "base_color", <<"B">>))
        eumelanin0 == IF base = "b" THEN "Chocolate"
                      ELSE IF base = "bl" THEN "Cinnamon"
                      ELSE "Black"
        dilute == get_dominant_allele("dilution", Get(cat.genes, "dilution", <<"D">>))
        eumelanin == IF dilute # "d" THEN eumelanin0
                     ELSE IF eumelanin0 = "Black" THEN "Blue"
                     ELSE IF eumelanin0 = "Chocolate" THEN "Lilac"
                     ELSE "Fawn"
        phaeomelanin == IF dilute = "d" THEN "Cream" ELSE "Red"
        has_silver == InList("I", Get(cat.genes, "inhibitor", <<>>))
        wb_level == get_wideband_level(cat)
        has_wideband == (wb_level >= 1) /\ ~has_silver
        agouti_alleles == Get(cat.genes, "agouti", <<"A", "A">>)
        is_solid == agouti_alleles[1] = "a" /\ agouti_alleles[2] = "a"
        prefix == IF has_silver THEN <<"Silver">>
                  ELSE IF has_wideband THEN <<"Golden">>
                  ELSE <<>>
        \* parts[0]: the colour phrase
        phrase ==
            IF red_expression = "red"
            THEN prefix \o <<phaeomelanin>> \o get_tabby_pattern(cat, TRUE) \o <<"Tabby">>
            ELSE IF red_expression = "tortie"
            THEN IF is_solid
                 THEN IF has_silver THEN <<eumelanin, "Smoke", "Tortoiseshell">>
                      ELSE <<eumelanin, "Tortoiseshell">>
                 ELSE LET pattern == get_tabby_pattern(cat, FALSE)
                          display_color == apply_breed_naming(eumelanin, pattern)
                      IN  prefix \o <<display_color>> \o pattern \o <<"Torbie">>
            ELSE IF is_solid
                 THEN IF has_silver THEN <<eumelanin, "Smoke">> ELSE <<eumelanin>>
                 ELSE LET pattern == get_tabby_pattern(cat, FALSE)
                          display_color == apply_breed_naming(eumelanin, pattern)
                      IN  prefix \o <<display_color>> \o pattern \o <<"Tabby">>
        karpati == IF InList("K", Get(cat.genes, "karpati", <<>>))
                   THEN <<"with", "Karpati">> ELSE <<>>
        cr_alleles == Get(cat.genes, "color_restriction", <<"C", "C">>)
        is_mink == InList("cb", cr_alleles) /\ InList("cs", cr_alleles)
        restriction == get_dominant_allele("color_restriction", cr_alleles)
        is_point == restriction = "cs"
        phrase2 == IF is_point THEN ReplaceBlack(phrase) ELSE phrase
        suffix == IF restriction = "cs" THEN <<"Point">>
                  ELSE IF is_mink THEN <<"Mink">>
                  ELSE IF restriction = "cb" THEN <<"Sepia">>
                  ELSE <<>>
        white == get_white_description(cat, draw)
        white_desc == IF white.val # <<>> /\ white.val # <<"White">> THEN white.val ELSE <<>>
    IN  [val |-> phrase2 \o karpati \o suffix \o white_desc, wp |-> white.wp]

build_color_pattern(cat, red_expression, draw) ==
    LET base == get_dominant_allele("base_color", Get(cat.genes, "base_color", <<"B">>))
        eumelanin0 == IF base = "b" THEN "Chocolate"
                      ELSE IF base = "bl" THEN "Cinnamon"
                      ELSE "Black"
        dilute == get_dominant_allele("dilution", Get(cat.genes, "dilution", <<"D">>))
        eumelanin == IF dilute # "d" THEN eumelanin0
                     ELSE IF eumelanin0 = "Black" THEN "Blue"
                     ELSE IF eumelanin0 = "Chocolate" THEN "Lilac"
                     ELSE "Fawn"
        phaeomelanin == IF dilute = "d" THEN "Cream" ELSE "Red"
        has_silver == InList("I", Get(cat.genes, "inhibitor", <<>>))
        wb_level == get_wideband_level(cat)
        has_wideband == (wb_level >= 1) /\ ~has_silver
        agouti_alleles == Get(cat.genes, "agouti", <<"A", "A">>)
        is_solid == agouti_alleles[1] = "a" /\ agouti_alleles[2] = "a"
        prefix == IF has_silver THEN <<"Silver">>
                  ELSE IF has_wideband THEN <<"Golden">>
                  ELSE <<>>
        \* parts[0]: the colour phrase
        phrase ==
            IF red_expression = "red"
            THEN prefix \o <<phaeomelanin>> \o get_tabby_pattern(cat, TRUE) \o <<"Tabby">>
            ELSE IF red_expression = "tortie"
            THEN IF is_solid
                 THEN IF has_silver THEN <<eumelanin, "Smoke", "Tortoiseshell">>
                      ELSE <<eumelanin, "Tortoiseshell">>
                 ELSE LET pattern == get_tabby_pattern(cat, FALSE)
                          display_color == apply_breed_naming(eumelanin, pattern)
                      IN  prefix \o <<display_color>> \o pattern \o <<"Torbie">>
            ELSE IF is_solid
                 THEN IF has_silver THEN <<eumelanin, "Smoke">> ELSE <<eumelanin>>
                 ELSE LET pattern == get_tabby_pattern(cat, FALSE)
                          display_color == apply_breed_naming(eumelanin, pattern)
                      IN  prefix \o <<display_color>> \o pattern \o <<"Tabby">>
        karpati == IF InList("K", Get(cat.genes, "karpati", <<>>))
                   THEN <<"with", "Karpati">> ELSE <<>>
        cr_alleles == Get(cat.genes, "color_restriction", <<"C", "C">>)
        is_mink == InList("cb", cr_alleles) /\ InList("cs", cr_alleles)
        restriction == get_dominant_allele("color_restriction", cr_alleles)
        is_point == ~is_mink /\ restriction = "cs"
        phrase2 == IF is_point THEN ReplaceBlack(phrase) ELSE phrase
        suffix == IF is_mink THEN <<"Mink">>
                  ELSE IF restriction = "cs" THEN <<"Point">>
                  ELSE IF restriction = "cb" THEN <<"Sepia">>
                  ELSE <<>>
        white == get_white_description(cat, draw)
        white_desc == IF white.val # <<>> /\ white.val # <<"White">> THEN white.val ELSE <<>>
    IN  [val |-> phrase2 \o karpati \o suffix \o white_desc, wp |-> white.wp]

\* the overrides tested albino first, dominant white second
calculate_phenotype_albino_first(cat, draw) ==
    LET fur == get_dominant_allele("fur_length", Get(cat.genes, "fur_length", <<"L">>))
        fur_desc == IF fur = "l" THEN "Longhair" ELSE "Shorthair"
        cr_alleles == Get(cat.genes, "color_restriction", <<>>)
    IN  IF Len(cr_alleles) = 2 /\ cr_alleles[1] = "c" /\ cr_alleles[2] = "c"
        THEN [val |-> <<fur_desc, "Albino">>, wp |-> cat.wp]
        ELSE IF InList("Wd", Get(cat.genes, "white", <<>>))
        THEN [val |-> <<fur_desc, "White">>, wp |-> cat.wp]
        ELSE LET red_expression == get_red_expression(cat)
                 color_pattern == build_color_pattern(cat, red_expression, draw)
             IN  [val |-> <<fur_desc>> \o color_pattern.val, wp |-> color_pattern.wp]

calculate_phenotype(cat, draw) ==
    LET fur == get_dominant_allele("fur_length", Get(cat.genes, "fur_length", <<"L">>))
        fur_desc == IF fur = "l" THEN "Longhair" ELSE "Shorthair"
        cr_alleles == Get(cat.genes, "color_restriction", <<>>)
    IN  IF InList("Wd", Get(cat.genes, "white", <<>>))
        THEN [val |-> <<fur_desc, "White">>, wp |-> cat.wp]
        ELSE IF Len(cr_alleles) = 2 /\ cr_alleles[1] = "c" /\ cr_alleles[2] = "c"
        THEN [val |-> <<fur_desc, "Albino">>, wp |-> cat.wp]
        ELSE LET red_expression == get_red_expression(cat)
                 color_pattern == build_color_pattern(cat, red_expression, draw)
             IN  [val |-> <<fur_desc>> \o color_pattern.val, wp |-> color_pattern.wp]

\* does calculate_phenotype reach get_white_percentage for this cat
ReachesWhite(cat) ==
    LET cr_alleles == Get(cat.genes, "color_restriction", <<>>)
    IN  /\ ~InList("Wd", Get(cat.genes, "white", <<>>))
        /\ ~(Len(cr_alleles) = 2 /\ cr_alleles[1] = "c" /\ cr_alleles[2] = "c")

\* what random.choices can return during calculate_phenotype(cat)
phenotype_choices(cat) == IF ReachesWhite(cat) THEN white_choices(cat) ELSE {0}

---------------------------------------------------------------------------
(* Cat, CatRegistry *)

\* the elements of a list
Range(list) == {list[i] : i \in DOMAIN list}

invalidate_cache(cat) == [cat EXCEPT !.wp = NoneVal]

\* Cat.from_dict(Cat.to_dict()): every field the model keeps is written and
\* read back under its own key
from_dict(data) ==
    Cat(data.id, data.sex, data.genes, data.sire_id, data.dam_id,
        data.build_value, data.size_value, data.wp)

\* add_cat with next_id left alone when the cat brings its id
add_cat_keeps_next_id(cats, nid, cat) ==
    IF cat.id = NoneVal
    THEN [cats |-> Put(cats, nid, [cat EXCEPT !.id = nid]), next_id |-> nid + 1, id |-> nid]
    ELSE [cats |-> Put(cats, cat.id, cat), next_id |-> nid, id |-> cat.id]

\* CatRegistry.add_cat on (cats, next_id): [cats, next_id, id]
add_cat(cats, nid, cat) ==
    IF cat.id = NoneVal
    THEN [cats |-> Put(cats, nid, [cat EXCEPT !.id = nid]), next_id |-> nid + 1, id |-> nid]
    ELSE [cats |-> Put(cats, cat.id, cat), next_id |-> Max(nid, cat.id + 1), id |-> cat.id]

\* CatRegistry.load_from_data after its clear(): the loop over data from
\* position i on
RECURSIVE load_from_data(_, _, _, _)
load_from_data(cats, nid, data, i) ==
    IF i > Len(data) THEN [cats |-> cats, next_id |-> nid]
    ELSE LET cat == from_dict(data[i])
         IN  load_from_data(Put(cats, cat.id, cat), Max(nid, cat.id + 1), data, i + 1)

---------------------------------------------------------------------------
(* CatService *)

\* _validate_cat(cat) reports at least one entry of severity 'error'
validate_cat_has_error(cat) ==
    \/ cat.sex \notin {"male", "female"}
    \/ \E gene_name \in DOMAIN cat.genes :
          \/ gene_name \notin DOMAIN genetics
          \/ LET gene_info == genetics[gene_name]
                 alleles == cat.genes[gene_name]
                 expected_count ==
                     IF Get(gene_info, "x_linked", FALSE) /\ cat.sex = "male" THEN 1 ELSE 2
             IN  \/ Len(alleles) # expected_count
                 \/ \E i \in DOMAIN alleles : alleles[i] \notin Range(gene_info.alleles)
    \/ (cat.sire_id # NoId /\ cat.sire_id \in DOMAIN registry
            /\ registry[cat.sire_id].sex # "male")
    \/ (cat.dam_id # NoId /\ cat.dam_id \in DOMAIN registry
            /\ registry[cat.dam_id].sex # "female")

\* create_cat(sex=, genes=, sire_id=, ...): a validation error raises
\* ValueError before anything is changed; CAT_ADDED clears the inbreeding cache
create_cat(sex, genes, sire_id, dam_id, build_value, size_value, white_percentage) ==
    LET cat == Cat(NoneVal, sex, genes, sire_id, dam_id, build_value, size_value,
                   white_percentage)
        added == add_cat(registry, next_id, cat)
    IN  /\ ~validate_cat_has_error(cat)
        /\ registry' = added.cats
        /\ next_id' = added.next_id
        /\ coefCache' = EmptyDict
        /\ UNCHANGED <<pending, genetics, now, ret, phenotype_cache>>

\* update_cat(cat_id, **updates): setattr for every key that is an attribute,
\* cat.invalidate_cache(), _invalidate_cat_cache(cat_id), and CAT_UPDATED
\* clears the inbreeding cache
update_cat(cat_id, updates) ==
    /\ cat_id \in DOMAIN registry
    /\ LET cat == registry[cat_id]
           set == [f \in DOMAIN cat |-> IF f \in DOMAIN updates THEN updates[f] ELSE cat[f]]
       IN  registry' = [registry EXCEPT ![cat_id] = invalidate_cache(set)]
    /\ coefCache' = EmptyDict
    /\ phenotype_cache' = Del(phenotype_cache, cat_id)
    /\ UNCHANGED <<next_id, pending, genetics, now, ret>>

\* delete_cat(cat_id): _invalidate_cat_cache(cat_id), and CAT_DELETED clears
\* the inbreeding cache
delete_cat(cat_id) ==
    /\ cat_id \in DOMAIN registry
    /\ registry' = Del(registry, cat_id)
    /\ coefCache' = EmptyDict
    /\ phenotype_cache' = Del(phenotype_cache, cat_id)
    /\ UNCHANGED <<next_id, pending, genetics, now, ret>>

---------------------------------------------------------------------------
(* Phenotype queries: what the callers of PhenotypeCalculator observe.      *)
(* ret keeps the cat as it was handed in (sex, genes, wp_in), the value     *)
(* returned, the _white_percentage left on the cat (wp), the number of      *)
(* queries so far (k) and, for calculate_phenotype, the previous            *)
(* calculate_phenotype result (before).                                     *)

Queries(r) == IF r.op = "none" THEN 0 ELSE r.k

LastPhenotype(r) ==
    IF r.op = "calculate_phenotype"
    THEN [op |-> r.op, a |-> r.a, sex |-> r.sex, genes |-> r.genes,
          wp_in |-> r.wp_in, wp |-> r.wp, val |-> r.val]
    ELSE NoRet

Call_calculate_phenotype(c, draw) ==
    /\ c \in DOMAIN registry
    /\ draw \in phenotype_choices(registry[c])
    /\    LET cat == registry[c]
              r == calculate_phenotype(cat, draw)
          IN  /\ registry' = [registry EXCEPT ![c].wp = r.wp]
              /\ ret' = [op |-> "calculate_phenotype", a |-> c, sex |-> cat.sex,
                         genes |-> cat.genes, wp_in |-> cat.wp, wp |-> r.wp,
                         val |-> r.val, k |-> Queries(ret) + 1,
                         before |-> LastPhenotype(ret)]
    /\ UNCHANGED <<next_id, coefCache, pending, genetics, now, phenotype_cache>>

Call_get_white_percentage(c, draw) ==
    /\ c \in DOMAIN registry
    /\ draw \in white_choices(registry[c])
    /\    LET cat == registry[c]
              r == get_white_percentage(cat, draw)
          IN  /\ registry' = [registry EXCEPT ![c].wp = r.wp]
              /\ ret' = [op |-> "get_white_percentage", a |-> c, sex |-> cat.sex,
                         genes |-> cat.genes, wp_in |-> cat.wp, wp |-> r.wp,
                         val |-> r.val, k |-> Queries(ret) + 1]
    /\ UNCHANGED <<next_id, coefCache, pending, genetics, now, phenotype_cache>>

---------------------------------------------------------------------------
(* The phenotype specification: cats are created and edited through         *)
(* CatService and their phenotype and white percentage are queried.         *)

\* cats created
MaxPhenoCats == 2
\* cats registered at a time
MaxPhenoLive == 2
\* phenotype / white percentage queries followed
MaxQueries == 2

\* a gene definition as genes.json holds it
GeneDef(alleles, ranks, x_linked) ==
    [alleles |-> alleles,
     dominance |-> [i \in Range(alleles) |->
                       ranks[CHOOSE j \in DOMAIN alleles : alleles[j] = i]],
     weights |-> [i \in Range(alleles) |-> 1],
     x_linked |-> x_linked]

\* a gene store with the loci PhenotypeCalculator reads
CoatGenes ==
    [fur_length |-> GeneDef(<<"L", "l">>, <<1, 0>>, FALSE),
     red |-> GeneDef(<<"O", "o">>, <<1, 0>>, TRUE),
     base_color |-> GeneDef(<<"B", "b", "bl">>, <<2, 1, 0>>, FALSE),
     dilution |-> GeneDef(<<"D", "d">>, <<1, 0>>, FALSE),
     agouti |-> GeneDef(<<"A", "Apb", "a">>, <<2, 1, 0>>, FALSE),
     inhibitor |-> GeneDef(<<"I", "i">>, <<1, 0>>, FALSE),
     wide_band |-> GeneDef(<<"Wb", "wb">>, <<1, 0>>, FALSE),
     ticked |-> GeneDef(<<"Ta", "ta">>, <<1, 0>>, FALSE),
     tabby |-> GeneDef(<<"Mc", "mc">>, <<1, 0>>, FALSE),
     spotted |-> GeneDef(<<"Sp", "sp">>, <<1, 0>>, FALSE),
     bengal |-> GeneDef(<<"Bm", "bm">>, <<1, 0>>, FALSE),
     karpati |-> GeneDef(<<"K", "k">>, <<1, 0>>, FALSE),
     color_restriction |-> GeneDef(<<"C", "cs", "cb", "c">>, <<3, 2, 2, 0>>, FALSE),
     white |-> GeneDef(<<"Wd", "Ws", "w">>, <<2, 1, 0>>, FALSE)]

\* d1 with the entries of d2 added (d2 wins):  {**d1, **d2}
Merge(d1, d2) == d2 @@ d1

\* genotypes handed to create_cat / update_cat: what the coat loci hold
\* besides white ...
PhenoCoats ==
    { EmptyDict,
      [agouti |-> <<"A", "a">>, inhibitor |-> <<"I", "i">>,
       color_restriction |-> <<"cs", "cs">>, fur_length |-> <<"l", "l">>] }
\* ... and the white locus
PhenoWhites ==
    { EmptyDict, [white |-> <<"Ws", "w">>], [white |-> <<"Ws", "Ws">>],
      [white |-> <<"Wd", "Ws">>] }
PhenoGenotypes == {Merge(c, w) : c \in PhenoCoats, w \in PhenoWhites}

\* white_percentage handed to the constructor: absent, or a stored value
StoredPercents == {NoneVal, 30}
\* the draws of random.choices that are followed: nothing drawn (0), both
\* ends of each range and both sides of each threshold of
\* get_white_description
PhenoDraws == {0, 1, 34, 35, 50, 64, 65, 99}

PhenoInit ==
    /\ registry = EmptyDict
    /\ next_id = 1
    /\ coefCache = EmptyDict
    /\ pending = EmptyDict
    /\ genetics = CoatGenes
    /\ now = 1
    /\ phenotype_cache = EmptyDict
    /\ ret = NoRet

\* the phenotype specification follows a behaviour up to its last query
PhenoOpen == Queries(ret) < MaxQueries

PhenoNext ==
    \/ \E sex \in {"male", "female"}, genes \in PhenoGenotypes, wp \in StoredPercents :
          /\ PhenoOpen
          /\ next_id <= MaxPhenoCats
          /\ Cardinality(DOMAIN registry) < MaxPhenoLive
          /\ create_cat(sex, genes, NoId, NoId, 50, 50, wp)
    \/ \E c \in 1 .. MaxPhenoCats, genes \in PhenoGenotypes :
          PhenoOpen /\ update_cat(c, [genes |-> genes])
    \/ \E c \in 1 .. MaxPhenoCats : PhenoOpen /\ delete_cat(c)
    \/ \E c \in 1 .. MaxPhenoCats, draw \in PhenoDraws :
          PhenoOpen /\ Call_calculate_phenotype(c, draw)
    \/ \E c \in 1 .. MaxPhenoCats, draw \in PhenoDraws :
          PhenoOpen /\ Call_get_white_percentage(c, draw)

PhenoSpec == PhenoInit /\ [][PhenoNext]_vars

---------------------------------------------------------------------------
(* Claims on the phenotype specification *)

\* two consecutive calculate_phenotype results on the same sex and genotype
SameGenotypeTwice ==
    /\ ret.op = "calculate_phenotype"
    /\ ret.before.op = "calculate_phenotype"
    /\ ret.sex = ret.before.sex
    /\ ret.genes = ret.before.genes

\* a text without its trailing white descriptor
StripWhite(text) ==
    LET n == Len(text)
    IN  IF n >= 1 /\ text[n] = "Bicolor" THEN SubSeq(text, 1, n - 1)
        ELSE IF n >= 3 /\ text[n - 2] = "with" /\ text[n - 1] \in {"Low", "High"}
                /\ text[n] = "White"
        THEN SubSeq(text, 1, n - 3)
        ELSE text

ShortCircuits(genes) ==
    LET cr_alleles == Get(genes, "color_restriction", <<>>)
    IN  \/ InList("Wd", Get(genes, "white", <<>>))
        \/ (Len(cr_alleles) = 2 /\ cr_alleles[1] = "c" /\ cr_alleles[2] = "c")

C10_DominantWhiteIsFull ==
    (ret.op = "get_white_percentage" /\ InList("Wd", Get(ret.genes, "white", <<>>)))
        => ret.val = 100

---------------------------------------------------------------------------
(* BreedingEngine.  Every random.* call is a choice: an operator that uses  *)
(* one returns the set of results it can produce; the numbers drawn for a   *)
(* kitten's sex, build and size are handed in as a roll                     *)
(* [sex, build, size, bonus].                                               *)

\* random.choice(list)
choice(list) == Range(list)

\* all dicts g over keys with g[k] \in choices[k]
RECURSIVE DictsOver(_, _)
DictsOver(keys, choices) ==
    IF keys = {} THEN {EmptyDict}
    ELSE LET k == CHOOSE x \in keys : TRUE
         IN  {Put(g, k, v) : g \in DictsOver(keys \ {k}, choices), v \in choices[k]}

\* the X-linked branch taking a son's allele from the sire
inherit_x_linked_sire_to_son(gene_data, sire_alleles, dam_alleles, offspring_sex) ==
    IF offspring_sex = "male"
    THEN IF sire_alleles # <<>> THEN {<<a>> : a \in choice(sire_alleles)}
         ELSE {<<gene_data.alleles[1]>>}
    ELSE LET a1 == IF sire_alleles # <<>> THEN sire_alleles[1] ELSE gene_data.alleles[1]
         IN  IF dam_alleles # <<>> THEN {<<a1, a2>> : a2 \in choice(dam_alleles)}
             ELSE {<<a1, gene_data.alleles[1]>>}

\* _inherit_genes, the X-linked branch (lines 57-68)
inherit_x_linked(gene_data, sire_alleles, dam_alleles, offspring_sex) ==
    IF offspring_sex = "male"
    THEN IF dam_alleles # <<>> THEN {<<a>> : a \in choice(dam_alleles)}
         ELSE {<<gene_data.alleles[1]>>}
    ELSE LET a1 == IF sire_alleles # <<>> THEN sire_alleles[1] ELSE gene_data.alleles[1]
         IN  IF dam_alleles # <<>> THEN {<<a1, a2>> : a2 \in choice(dam_alleles)}
             ELSE {<<a1, gene_data.alleles[1]>>}

\* the autosomal branch drawing both alleles from the sire
inherit_autosomal_sire_twice(gene_data, sire_alleles, dam_alleles) ==
    LET from_sire == IF sire_alleles # <<>> THEN choice(sire_alleles)
                     ELSE {gene_data.alleles[1]}
    IN  {<<a1, a2>> : a1 \in from_sire, a2 \in from_sire}

\* _inherit_genes, the autosomal branch (lines 69-75)
inherit_autosomal(gene_data, sire_alleles, dam_alleles) ==
    LET from_sire == IF sire_alleles # <<>> THEN choice(sire_alleles)
                     ELSE {gene_data.alleles[1]}
        from_dam == IF dam_alleles # <<>> THEN choice(dam_alleles)
                    ELSE {gene_data.alleles[1]}
    IN  {<<a1, a2>> : a1 \in from_sire, a2 \in from_dam}

\* the genes skipped as quantitative traits
InheritedGenes == DOMAIN genetics \ {"build", "size"}

inherit_genes(sire, dam, offspring_sex) ==
    DictsOver(InheritedGenes,
        [gene_name \in InheritedGenes |->
            LET gene_data == genetics[gene_name]
                sire_alleles == Get(sire.genes, gene_name, <<>>)
                dam_alleles == Get(dam.genes, gene_name, <<>>)
            IN  IF Get(gene_data, "x_linked", FALSE)
                THEN inherit_x_linked(gene_data, sire_alleles, dam_alleles, offspring_sex)
                ELSE inherit_autosomal(gene_data, sire_alleles, dam_alleles)])

\* rarity_boost is kept in tenths: 10 is 1.0
BoostOne == 10

\* the lists an allele pair can become: each position is kept or, with
\* probability mutation_probability > 0, redrawn from the gene's alleles
\* (every boosted weight is positive)
mutated_pairs(allele_pair, gene_data) ==
    {m \in [DOMAIN allele_pair -> Range(allele_pair) \cup Range(gene_data.alleles)] :
        \A idx \in DOMAIN allele_pair :
            m[idx] = allele_pair[idx] \/ m[idx] \in Range(gene_data.alleles)}

apply_rarity_mutations(genes, rarity_boost) ==
    DictsOver(DOMAIN genes,
        [gene_name \in DOMAIN genes |-> mutated_pairs(genes[gene_name], genetics[gene_name])])

\* int(x) for x = twice / 2: truncation towards zero
IntOfHalf(twice) == IF twice >= 0 THEN twice \div 2 ELSE -((-twice) \div 2)

calculate_build(sire, dam, mutation) ==
    Max(0, Min(100, IntOfHalf(sire.build_value + dam.build_value + 2 * mutation)))

calculate_size(sire, dam, sex, mutation, bonus) ==
    LET kitten_size == Max(0, Min(100, IntOfHalf(sire.size_value + dam.size_value
                                                   + 2 * mutation)))
    IN  IF sex = "male" THEN Min(100, kitten_size + bonus) ELSE kitten_size

\* the numbers random can hand to one pass of the loop of breed_cats
Rolls ==
    [sex : {"male", "female"}, build : -5 .. 5, size : -5 .. 5, bonus : 3 .. 8]

\* one pass of the loop with _apply_rarity_mutations run whatever the boost
breed_kitten_always_mutates(sire, dam, rarity_boost, roll) ==
    LET inherited == inherit_genes(sire, dam, roll.sex)
        genes_set == UNION {apply_rarity_mutations(g, rarity_boost) : g \in inherited}
    IN  {Cat(NoneVal, roll.sex, genes, sire.id, dam.id,
             calculate_build(sire, dam, roll.build),
             calculate_size(sire, dam, roll.sex, roll.size, roll.bonus),
             NoneVal) : genes \in genes_set}

\* one pass of the loop of breed_cats: the kittens it can append
breed_kitten(sire, dam, rarity_boost, roll) ==
    LET inherited == inherit_genes(sire, dam, roll.sex)
        genes_set == IF rarity_boost > BoostOne
                     THEN UNION {apply_rarity_mutations(g, rarity_boost) : g \in inherited}
                     ELSE inherited
    IN  {Cat(NoneVal, roll.sex, genes, sire.id, dam.id,
             calculate_build(sire, dam, roll.build),
             calculate_size(sire, dam, roll.sex, roll.size, roll.bonus),
             NoneVal) : genes \in genes_set}

\* the kitten's allele lists taken to be the dam's list objects
allele_list_owner_dam(gene_name, offspring_sex) == "dam"

\* who holds the list object _inherit_genes stores under genes[gene_name]:
\* each branch builds it with a list display, so it is the kitten's own
allele_list_owner(gene_name, offspring_sex) == "kitten"

\* a parent after the litter was bred: the allele lists of the kittens are
\* the ones _apply_rarity_mutations writes to, and a list shows on the
\* parent where the parent holds that very object
RECURSIVE after_breeding(_, _, _, _)
after_breeding(parent, role, litter, i) ==
    IF i > Len(litter) THEN parent
    ELSE LET kitten == litter[i]
             genes == [g \in DOMAIN parent.genes |->
                          IF g \in DOMAIN kitten.genes
                             /\ allele_list_owner(g, kitten.sex) = role
                          THEN kitten.genes[g] ELSE parent.genes[g]]
         IN  after_breeding([parent EXCEPT !.genes = genes], role, litter, i + 1)

\* the litters breed_cats can return when random hands it rolls[1..litter_size]
RECURSIVE breed_from(_, _, _, _, _)
breed_from(sire, dam, rarity_boost, rolls, i) ==
    IF i > Len(rolls) THEN {<<>>}
    ELSE {<<kitten>> \o rest :
             kitten \in breed_kitten(sire, dam, rarity_boost, rolls[i]),
             rest \in breed_from(sire, dam, rarity_boost, rolls, i + 1)}

breed_cats(sire, dam, litter_size, rarity_boost, rolls) ==
    breed_from(sire, dam, rarity_boost, SubSeq(rolls, 1, litter_size), 1)

---------------------------------------------------------------------------
(* BreedingService *)

\* _validate_breeding_pair(sire, dam) returns a non-empty list
validate_breeding_pair_has_error(sire, dam) ==
    \/ sire.sex # "male"
    \/ dam.sex # "female"
    \/ sire.id = dam.id
    \/ check_relatedness(sire.id, dam.id, registry, 3).val

\* f"litter_{sire_id}x{dam_id}_{now to the second}"
LitterId(sire_id, dam_id, time) == <<sire_id, dam_id, time>>

\* generate_litter: a missing parent or a validation error raises ValueError
\* before anything is changed; the litter is stored under its id and
\* returned.  The parents are the registered objects, so what breed_cats
\* writes into a list they hold shows in the registry.
generate_litter(sire_id, dam_id, litter_size, rarity_boost, validate, rolls) ==
    /\ sire_id \in DOMAIN registry
    /\ dam_id \in DOMAIN registry
    /\ validate => ~validate_breeding_pair_has_error(registry[sire_id], registry[dam_id])
    /\ Len(rolls) = litter_size
    /\ \A i \in DOMAIN rolls : rolls[i] \in Rolls
    /\ \E litter \in breed_cats(registry[sire_id], registry[dam_id], litter_size,
                                rarity_boost, rolls) :
          LET litter_id == LitterId(sire_id, dam_id, now)
              sired == [registry EXCEPT
                           ![sire_id] = after_breeding(@, "sire", litter, 1)]
          IN  /\ registry' = [sired EXCEPT
                                 ![dam_id] = after_breeding(@, "dam", litter, 1)]
              /\ pending' = Put(pending, litter_id, litter)
              /\ ret' = [op |-> "generate_litter", sire |-> registry[sire_id],
                         dam |-> registry[dam_id], rarity_boost |-> rarity_boost,
                         litter_size |-> litter_size,
                         litter_id |-> litter_id, val |-> litter]
    /\ UNCHANGED <<next_id, coefCache, genetics, now, phenotype_cache>>

\* the loop of save_litter from kitten i on: [cats, next_id]
RECURSIVE add_kittens(_, _, _, _)
add_kittens(cats, nid, litter, i) ==
    IF i > Len(litter) THEN [cats |-> cats, next_id |-> nid]
    ELSE LET added == add_cat(cats, nid, litter[i])
         IN  add_kittens(added.cats, added.next_id, litter, i + 1)

\* save_litter: every kitten is added to the registry, the litter leaves the
\* pending ones, LITTER_SAVED is emitted (no subscriber touches the
\* inbreeding cache)
save_litter(litter_id) ==
    /\ litter_id \in DOMAIN pending
    /\ LET saved == add_kittens(registry, next_id, pending[litter_id], 1)
       IN  /\ registry' = saved.cats
           /\ next_id' = saved.next_id
    /\ pending' = Del(pending, litter_id)
    /\ UNCHANGED <<coefCache, genetics, now, ret, phenotype_cache>>

discard_litter(litter_id) ==
    /\ litter_id \in DOMAIN pending
    /\ pending' = Del(pending, litter_id)
    /\ UNCHANGED <<registry, next_id, coefCache, genetics, now, ret, phenotype_cache>>

---------------------------------------------------------------------------
(* The breeding specification: a sire and a dam with given genotypes, and   *)
(* litters generated from them.                                             *)

\* kittens in a litter
MaxLitter == 2
\* litters pending when generate_litter is called: fewer than MaxPending
MaxPending == 1

\* a gene definition without the optional x_linked key
AutosomalDef(alleles, ranks) ==
    [alleles |-> alleles,
     dominance |-> [i \in Range(alleles) |->
                       ranks[CHOOSE j \in DOMAIN alleles : alleles[j] = i]],
     weights |-> [i \in Range(alleles) |-> 1]]

\* gene stores: an X-linked and an autosomal locus, and the build entry
\* that _inherit_genes skips
BreedStores ==
    { [red |-> GeneDef(<<"O", "o">>, <<1, 0>>, TRUE),
       dilution |-> AutosomalDef(<<"D", "d">>, <<1, 0>>),
       build |-> AutosomalDef(<<"cobby", "foreign">>, <<0, 0>>)],
      [red |-> GeneDef(<<"o", "O">>, <<0, 1>>, TRUE),
       dilution |-> GeneDef(<<"d", "D">>, <<0, 1>>, FALSE)] }

\* the genotypes of the parents: a locus is absent, empty, or filled
SireGenotypes ==
    {Merge(r, d) : r \in {EmptyDict, [red |-> <<"O">>], [red |-> <<"o">>]},
                   d \in {EmptyDict, [dilution |-> <<>>], [dilution |-> <<"D", "d">>]}}
DamGenotypes ==
    {Merge(r, d) : r \in {[red |-> <<>>], [red |-> <<"O", "o">>], [red |-> <<"o", "o">>]},
                   d \in {EmptyDict, [dilution |-> <<"d", "d">>], [dilution |-> <<"d", "D">>]}}

\* the rolls followed
BreedRolls == [sex : {"male", "female"}, build : {-5}, size : {5}, bonus : {8}]
\* rarity_boost values, in tenths
BreedBoosts == {BoostOne, 2 * BoostOne}

BreedInit ==
    /\ \E sire_genes \in SireGenotypes, dam_genes \in DamGenotypes :
          registry = (1 :> Cat(1, "male", sire_genes, NoId, NoId, 40, 45, NoneVal))
                  @@ (2 :> Cat(2, "female", dam_genes, NoId, NoId, 45, 50, NoneVal))
    /\ next_id = 3
    /\ coefCache = EmptyDict
    /\ pending = EmptyDict
    /\ genetics \in BreedStores
    /\ now = 1
    /\ phenotype_cache = EmptyDict
    /\ ret = NoRet

BreedNext ==
    \E litter_size \in 1 .. MaxLitter, rarity_boost \in BreedBoosts,
       validate \in BOOLEAN, rolls \in UNION {[1 .. n -> BreedRolls] : n \in 1 .. MaxLitter} :
       /\ Cardinality(DOMAIN pending) < MaxPending
       /\ generate_litter(1, 2, litter_size, rarity_boost, validate, rolls)

BreedSpec == BreedInit /\ [][BreedNext]_vars


---------------------------------------------------------------------------
(* Claims on the breeding specification                                     *)

\* the loci of the gene store _inherit_genes treats as X-linked, and the rest
XLinkedLoci == {gene_name \in InheritedGenes : Get(genetics[gene_name], "x_linked", FALSE)}
AutosomalLoci == InheritedGenes \ XLinkedLoci

\* the last call was a generate_litter whose breed_cats skipped mutation
Unmutated == ret.op = "generate_litter" /\ ret.rarity_boost <= BoostOne

\* the alleles one parent can pass on at an autosomal locus
SideAlleles(parent, gene_name) ==
    LET alleles == Get(parent.genes, gene_name, <<>>)
    IN  IF alleles # <<>> THEN Range(alleles) ELSE {genetics[gene_name].alleles[1]}

\* C8: in a litter bred without mutation, at every X-linked locus where both
\* parents carry data a son holds exactly one allele and it is one of the
\* dam's, a daughter holds the pair [the sire's allele, one of the dam's];
\* a daughter of sire [o] and dam [O, o] at the red locus is tortie or
\* non-red, never red.
C8_XLinkedInheritance ==
    Unmutated =>
        \A i \in DOMAIN ret.val :
            LET kitten == ret.val[i]
            IN  /\ \A gene_name \in XLinkedLoci :
                       LET sire_alleles == Get(ret.sire.genes, gene_name, <<>>)
                           dam_alleles == Get(ret.dam.genes, gene_name, <<>>)
                       IN  (sire_alleles # <<>> /\ dam_alleles # <<>>) =>
                               /\ gene_name \in DOMAIN kitten.genes
                               /\ IF kitten.sex = "male"
                                  THEN /\ Len(kitten.genes[gene_name]) = 1
                                       /\ kitten.genes[gene_name][1] \in Range(dam_alleles)
                                  ELSE /\ Len(kitten.genes[gene_name]) = 2
                                       /\ kitten.genes[gene_name][1] = sire_alleles[1]
                                       /\ kitten.genes[gene_name][2] \in Range(dam_alleles)
                /\ ( /\ "red" \in XLinkedLoci
                     /\ Get(ret.sire.genes, "red", <<>>) = <<"o">>
                     /\ Get(ret.dam.genes, "red", <<>>) = <<"O", "o">>
                     /\ kitten.sex = "female" )
                   => get_red_expression(kitten) \in {"tortie", "non-red"}

\* C8 witness: one unmutated litter of sire [o] and dam [O, o] holds a
\* tortie daughter and a non-red daughter.
C8_Witness ==
    /\ Unmutated
    /\ "red" \in XLinkedLoci
    /\ Get(ret.sire.genes, "red", <<>>) = <<"o">>
    /\ Get(ret.dam.genes, "red", <<>>) = <<"O", "o">>
    /\ Len(ret.val) = 2
    /\ ret.val[1].sex = "female" /\ get_red_expression(ret.val[1]) = "tortie"
    /\ ret.val[2].sex = "female" /\ get_red_expression(ret.val[2]) = "non-red"

\* C9: in a litter bred without mutation, at every autosomal locus of the
\* gene store other than build and size a kitten holds a pair whose first
\* allele is one of the sire's and whose second is one of the dam's, a
\* parent with no or an empty entry standing for the gene's first defined
\* allele; and breeding the pair yields a kitten whatever the parents lack.
C9_AutosomalInheritance ==
    /\ Unmutated =>
           \A i \in DOMAIN ret.val, gene_name \in AutosomalLoci :
               LET kitten == ret.val[i]
               IN  /\ gene_name \in DOMAIN kitten.genes
                   /\ Len(kitten.genes[gene_name]) = 2
                   /\ kitten.genes[gene_name][1] \in SideAlleles(ret.sire, gene_name)
                   /\ kitten.genes[gene_name][2] \in SideAlleles(ret.dam, gene_name)
    /\ \A roll \in BreedRolls :
           breed_kitten(registry[1], registry[2], BoostOne, roll) # {}

\* C9 witness: the sire has no dilution entry and the dam holds [d, D]; the
\* two kittens of one unmutated litter hold the gene's first defined allele
\* first and, second, one d and the other D.
C9_Witness ==
    /\ Unmutated
    /\ "dilution" \in AutosomalLoci
    /\ "dilution" \notin DOMAIN ret.sire.genes
    /\ Get(ret.dam.genes, "dilution", <<>>) = <<"d", "D">>
    /\ Len(ret.val) = 2
    /\ ret.val[1].genes["dilution"] = <<genetics["dilution"].alleles[1], "d">>
    /\ ret.val[2].genes["dilution"] = <<genetics["dilution"].alleles[1], "D">>


---------------------------------------------------------------------------
(* CatGenApplication: the services wired to the event bus, and the registry *)
(* file operations. InbreedingCalculator.clear_cache is subscribed to       *)
(* CAT_ADDED, CAT_UPDATED and CAT_DELETED only.                             *)

\* load_registry(filepath) on a readable file holding data: registry.clear()
\* and registry.load_from_data(data); REGISTRY_LOADED has no subscriber that
\* touches the inbreeding cache
load_registry(data) ==
    /\ LET loaded == load_from_data(EmptyDict, 1, data, 1)
       IN  /\ registry' = loaded.cats
           /\ next_id' = loaded.next_id
    /\ UNCHANGED <<coefCache, pending, genetics, now, ret, phenotype_cache>>

\* InbreedingCalculator.calculate_coefficient(cat_id) on the calculator the
\* application keeps: the cache persists from call to call
App_calculate_coefficient(cat_id) ==
    LET r == calculate_coefficient(registry, coefCache, cat_id)
    IN  /\ coefCache' = r.cache
        /\ UNCHANGED <<registry, next_id, pending, genetics, now, ret, phenotype_cache>>

---------------------------------------------------------------------------
(* The application specification: a population built, bred, edited and      *)
(* reloaded through the services, with coefficient queries in between.      *)

\* ids handed out: 1 .. MaxAppCats
MaxAppCats == 3
AppIds == 1 .. MaxAppCats
\* parents typed in, <<sire_id, dam_id>>: none, a sire that is not
\* registered, and a pair whose dam may not be registered yet
AppParents == {<<NoId, NoId>>, <<MaxAppCats + 1, NoId>>, <<1, 3>>}
\* the rolls followed
AppRolls == [sex : {"male", "female"}, build : {0}, size : {0}, bonus : {3}]

\* registry files: three founders, and a pedigree in which cat 3 descends
\* from two half-siblings whose shared sire is not in the file
SavedFiles ==
    { <<Cat(1, "male", EmptyDict, NoId, NoId, 50, 50, NoneVal),
        Cat(2, "female", EmptyDict, NoId, NoId, 50, 50, NoneVal),
        Cat(3, "female", EmptyDict, NoId, NoId, 50, 50, NoneVal)>>,
      <<Cat(1, "male", EmptyDict, MaxAppCats + 1, NoId, 50, 50, NoneVal),
        Cat(2, "female", EmptyDict, MaxAppCats + 1, NoId, 50, 50, NoneVal),
        Cat(3, "female", EmptyDict, 1, 2, 50, 50, NoneVal)>> }

AppInit ==
    /\ registry = EmptyDict
    /\ next_id = 1
    /\ coefCache = EmptyDict
    /\ pending = EmptyDict
    /\ genetics = EmptyDict
    /\ now = 1
    /\ phenotype_cache = EmptyDict
    /\ ret = NoRet

AppNext ==
    \/ \E sex \in {"male", "female"}, parents \in AppParents :
          /\ next_id <= MaxAppCats
          /\ create_cat(sex, EmptyDict, parents[1], parents[2], 50, 50, NoneVal)
    \/ \E c \in AppIds, parents \in AppParents :
          update_cat(c, [sire_id |-> parents[1], dam_id |-> parents[2]])
    \/ \E c \in AppIds : delete_cat(c)
    \/ \E validate \in BOOLEAN, rolls \in [1 .. 1 -> AppRolls] :
          /\ Cardinality(DOMAIN pending) < MaxPending
          /\ next_id <= MaxAppCats
          /\ generate_litter(1, 2, 1, BoostOne, validate, rolls)
    \/ \E litter_id \in DOMAIN pending : save_litter(litter_id)
    \/ \E litter_id \in DOMAIN pending : discard_litter(litter_id)
    \/ \E data \in SavedFiles : load_registry(data)
    \/ \E c \in AppIds : App_calculate_coefficient(c)

AppSpec == AppInit /\ [][AppNext]_vars

---------------------------------------------------------------------------
(* Claim on the application specification                                   *)

\* C2: after any sequence of create_cat, update_cat, delete_cat, save_litter
\* and load_registry, calculate_coefficient(id) on the application's
\* calculator returns what a calculator with an empty cache returns on the
\* current registry.
C2_CacheMatchesRegistry ==
    \A c \in AppIds :
        LET cached == calculate_coefficient(registry, coefCache, c)
            fresh == calculate_coefficient(registry, EmptyDict, c)
        IN  (~cached.raised /\ ~fresh.raised) => cached.f = fresh.f


---------------------------------------------------------------------------
(* The coat specification: one cat whose genotype ranges over the loci the  *)
(* top-level overrides read, described once.                                *)

\* what each locus of the described cat can hold
CoatWhites ==
    { EmptyDict, [white |-> <<"w", "w">>], [white |-> <<"Ws", "w">>],
      [white |-> <<"Wd", "w">>], [white |-> <<"w", "Wd">>], [white |-> <<"Wd", "Ws">>] }
CoatRestrictions ==
    { EmptyDict, [color_restriction |-> <<"c", "c">>], [color_restriction |-> <<"C", "c">>],
      [color_restriction |-> <<"c", "cs">>], [color_restriction |-> <<"cs", "cb">>] }
CoatFurs ==
    { EmptyDict, [fur_length |-> <<"L", "l">>], [fur_length |-> <<"l", "L">>],
      [fur_length |-> <<"l", "l">>] }
CoatAgoutis == { EmptyDict, [agouti |-> <<"a", "a">>] }
CoatReds(sex) ==
    IF sex = "male" THEN { EmptyDict, [red |-> <<"O">>] }
    ELSE { EmptyDict, [red |-> <<"O", "o">>] }

CoatGenotypes(sex) ==
    { Merge(Merge(Merge(w, c), Merge(f, a)), r) :
        w \in CoatWhites, c \in CoatRestrictions, f \in CoatFurs, a \in CoatAgoutis,
        r \in CoatReds(sex) }

\* white_percentage the cat was built with: none, partial, full
CoatPercents == {NoneVal, 30, 100}

CoatInit ==
    /\ \E sex \in {"male", "female"}, white_percentage \in CoatPercents :
          \E genes \in CoatGenotypes(sex) :
             registry = (1 :> Cat(1, sex, genes, NoId, NoId, 50, 50, white_percentage))
    /\ next_id = 2
    /\ coefCache = EmptyDict
    /\ pending = EmptyDict
    /\ genetics \in {CoatGenes, EmptyDict}
    /\ now = 1
    /\ phenotype_cache = EmptyDict
    /\ ret = NoRet

CoatNext ==
    \E draw \in PhenoDraws : ret.op = "none" /\ Call_calculate_phenotype(1, draw)

CoatSpec == CoatInit /\ [][CoatNext]_vars

---------------------------------------------------------------------------
(* Claims on the coat specification *)

\* the fur word of the described genotype: Longhair iff the dominant
\* fur-length allele is l
FurWord(genes) ==
    IF get_dominant_allele("fur_length", Get(genes, "fur_length", <<"L">>)) = "l"
    THEN "Longhair" ELSE "Shorthair"

HasDominantWhite(genes) == InList("Wd", Get(genes, "white", <<>>))
IsAlbino(genes) == Get(genes, "color_restriction", <<>>) = <<"c", "c">>

\* C11: a genotype whose white locus holds Wd is described as exactly
\* '<fur> White' whatever the other loci hold, c/c included; a genotype
\* without Wd whose color_restriction is c/c as exactly '<fur> Albino'; no
\* other genotype is described by either text.
C11_OverridePriority ==
    ret.op = "calculate_phenotype" =>
        /\ HasDominantWhite(ret.genes) => ret.val = <<FurWord(ret.genes), "White">>
        /\ (~HasDominantWhite(ret.genes) /\ IsAlbino(ret.genes))
              => ret.val = <<FurWord(ret.genes), "Albino">>
        /\ (~HasDominantWhite(ret.genes) /\ ~IsAlbino(ret.genes))
              => \A f \in {"Longhair", "Shorthair"} :
                    ret.val # <<f, "White">> /\ ret.val # <<f, "Albino">>

\* C11 witness: a longhaired genotype holding both Wd and c/c was described
\* as 'Longhair White'.
C11_Witness ==
    /\ ret.op = "calculate_phenotype"
    /\ HasDominantWhite(ret.genes)
    /\ IsAlbino(ret.genes)
    /\ Get(ret.genes, "fur_length", <<>>) = <<"l", "l">>
    /\ ret.val = <<"Longhair", "White">>


---------------------------------------------------------------------------
(* The kinship specification: acyclic pedigrees bred in a line, two cats    *)
(* per generation from the two cats of the generation before, and the       *)
(* inbreeding coefficient of one of them computed by a fresh calculator.    *)

\* generations bred from the two founders
MaxSibGen == 4

\* how a kitten of the pair (a, b) is recorded: either parent as sire, or
\* a mated to the cat numbered just before it (a cat of the generation
\* before a's, so the two parents' paths differ in length; for the
\* founders there is no such cat and the dam is left out)
KinParents(a, b) == {<<a, b>>, <<b, a>>, <<a, a - 1>>}

\* the registries after g generations: founders 1 and 2, then cat 2g + 1
\* recorded in one of those ways and cat 2g + 2 bred from cats 2g - 1 and 2g
RECURSIVE KinRegistries(_)
KinRegistries(g) ==
    IF g = 0
    THEN {(1 :> PlainCat(1, NoId, NoId)) @@ (2 :> PlainCat(2, NoId, NoId))}
    ELSE {reg @@ (2 * g + 1 :> PlainCat(2 * g + 1, p[1], p[2]))
              @@ (2 * g + 2 :> PlainCat(2 * g + 2, q[1], q[2])) :
             reg \in KinRegistries(g - 1),
             p \in KinParents(2 * g - 1, 2 * g),
             q \in {<<2 * g - 1, 2 * g>>, <<2 * g, 2 * g - 1>>}}

KinInit ==
    /\ \E g \in 0 .. MaxSibGen :
          /\ registry \in KinRegistries(g)
          /\ next_id = 2 * g + 3
    /\ coefCache = EmptyDict
    /\ pending = EmptyDict
    /\ genetics = EmptyDict
    /\ now = 1
    /\ phenotype_cache = EmptyDict
    /\ ret = NoRet

\* find_inbred_cats() on a fresh calculator
Call_find_inbred_cats ==
    /\ ret.op = "none"
    /\ LET r == find_inbred_cats(registry, coefCache, InbredThreshold)
       IN  /\ ret' = [op |-> "find_inbred_cats", a |-> 0, b |-> 0, n |-> 0,
                      val |-> r.val, deep |-> r.deep, raised |-> r.raised]
           /\ coefCache' = r.cache
    /\ UNCHANGED <<registry, next_id, pending, genetics, now, phenotype_cache>>

KinNext ==
    \E a \in DOMAIN registry : Call_calculate_coefficient(a)

KinSpec == KinInit /\ [][KinNext]_vars

\* the pedigrees find_inbred_cats and find_pedigree_loops report on: up to
\* MaxReportGen generations of such matings
MaxReportGen == 3

ReportInit ==
    /\ \E g \in 0 .. MaxReportGen :
          /\ registry \in KinRegistries(g)
          /\ next_id = 2 * g + 3
    /\ coefCache = EmptyDict
    /\ pending = EmptyDict
    /\ genetics = EmptyDict
    /\ now = 1
    /\ phenotype_cache = EmptyDict
    /\ ret = NoRet

ReportNext ==
    \/ Call_find_inbred_cats
    \/ \E a \in DOMAIN registry : ret.op = "none" /\ Call_find_pedigree_loops(a)

ReportSpec == ReportInit /\ [][ReportNext]_vars


\* the registry with the sire_id and dam_id of cat c exchanged
SwapParents(reg, c) ==
    [reg EXCEPT ![c].sire_id = reg[c].dam_id, ![c].dam_id = reg[c].sire_id]

\* C13: exchanging an individual's sire_id and dam_id leaves its
\* common-ancestor set and its calculate_coefficient value (computed with an
\* empty cache) unchanged.
C13_SwapSymmetric ==
    (ret.op = "calculate_coefficient" /\ ret.a \in DOMAIN registry)
        => LET cat == registry[ret.a]
               swapped == SwapParents(registry, ret.a)
               r == calculate_coefficient(swapped, EmptyDict, ret.a)
           IN  /\ r.f = ret.val
               /\ r.raised = ret.raised
               /\ find_common_ancestors(swapped, cat.dam_id, cat.sire_id)
                      = find_common_ancestors(registry, cat.sire_id, cat.dam_id)

\* an inbred cat whose parents are of different generations, so that the
\* paths from its sire and from its dam differ in length
C13_Witness ==
    /\ ret.op = "calculate_coefficient"
    /\ ret.a \in DOMAIN registry
    /\ registry[ret.a].dam_id = registry[ret.a].sire_id - 1
    /\ registry[ret.a].dam_id # NoId
    /\ ~ret.raised
    /\ FGreater(ret.val, FZero)


\* every parent id names a cat registered with a smaller id: the pedigree
\* has no cycle and no dangling parent
Acyclic(reg) ==
    \A c \in DOMAIN reg : \A p \in Parents(reg, c) : p \in DOMAIN reg /\ p < c

FOne == <<1, 0>>

\* C14: on an acyclic pedigree the value returned by calculate_coefficient
\* is a probability, 0 <= F <= 1, including after several successive
\* generations of full-sibling matings.
C14_CoefficientIsProbability ==
    (ret.op = "calculate_coefficient" /\ Acyclic(registry))
        => (~ret.raised /\ FGeq(ret.val, FZero) /\ FGeq(FOne, ret.val))


---------------------------------------------------------------------------
(* Further claims on the pedigree specification *)

\* C15: a sire_id or dam_id that names no registered individual is never a
\* member of an ancestor set returned by InbreedingCalculator._get_all_ancestors
\* or PedigreeAnalyzer._get_all_ancestors (the latter's size is the
\* known_ancestors of calculate_pedigree_completeness).
C15_DanglingIdsExcluded ==
    ret.op \in {"Inb_get_all_ancestors", "Ped_get_all_ancestors"}
        => ret.val \subseteq DOMAIN registry


\* the registered cats that have f in their ancestry: f is reached from them
\* by one or more parent hops within the bound of the walk
DescendantsOf(reg, f) ==
    {c \in DOMAIN reg : f \in HopsWithin(reg, c, HasAncestorMaxDepth + 1)}

\* C16: for every founder f, calculate_founder_contribution reports
\* descendants = the number of population members that have f in their
\* ancestry and percentage = descendants / population size x 100; a founder
\* with no offspring has descendants 0 and percentage 0.
C16_FounderContribution ==
    ret.op = "calculate_founder_contribution"
        => \A f \in DOMAIN registry :
              IsFounder(registry, f)
                  => /\ f \in DOMAIN ret.val
                     /\ ret.val[f].descendants = Cardinality(DescendantsOf(registry, f))
                     /\ ret.val[f].percentage[2] = Cardinality(DOMAIN registry)
                     /\ ret.val[f].percentage[1]
                            = 100 * Cardinality(DescendantsOf(registry, f))


\* C17: validate_registry reports a CIRCULAR_PEDIGREE error for an individual
\* exactly when it is reachable from itself by one or more parent edges
\* (self-parent included, cycle length within the depth bound of the walk);
\* an individual that only descends from a cycle, or has dangling parents,
\* is not flagged.
C17_CircularExactlyOnCycle ==
    ret.op = "check_circular_pedigrees"
        => \A c \in DOMAIN registry :
              /\ c \in ret.val => c \in HopsWithin(registry, c, OwnAncestorMaxDepth + 1)
              /\ c \in HopsWithin(registry, c, OwnAncestorMaxDepth) => c \in ret.val

\* a two-cat cycle, both cats flagged, and a third cat that descends from
\* the cycle and is not flagged
C17_Witness ==
    /\ ret.op = "check_circular_pedigrees"
    /\ \E c \in DOMAIN registry, d \in DOMAIN registry, e \in DOMAIN registry :
          /\ c # d /\ e \notin {c, d}
          /\ d \in Parents(registry, c) /\ c \in Parents(registry, d)
          /\ c \in Parents(registry, e)
          /\ ret.val = {c, d}


---------------------------------------------------------------------------
(* The build specification: a sire and a dam with given build and size     *)
(* values, and one call of _calculate_build or _calculate_size on them.    *)

\* build values of the parents: the ends of the scale and values whose sums
\* are odd
BuildValues == {0, 1, 50, 51, 52, 99, 100}
SizeValues == {0, 47, 100}

\* random.randint(-5, 5) and random.randint(3, 8)
Mutations == -5 .. 5
MaleBonuses == 3 .. 8

BuildInit ==
    /\ \E sb \in BuildValues, db \in BuildValues, ss \in SizeValues, ds \in SizeValues :
          registry = (1 :> Cat(1, "male", EmptyDict, NoId, NoId, sb, ss, NoneVal))
                  @@ (2 :> Cat(2, "female", EmptyDict, NoId, NoId, db, ds, NoneVal))
    /\ next_id = 3
    /\ coefCache = EmptyDict
    /\ pending = EmptyDict
    /\ genetics = EmptyDict
    /\ now = 1
    /\ phenotype_cache = EmptyDict
    /\ ret = NoRet

Call_calculate_build(mutation) ==
    /\ ret.op = "none"
    /\ ret' = [op |-> "calculate_build", a |-> mutation,
               val |-> calculate_build(registry[1], registry[2], mutation)]
    /\ UNCHANGED <<registry, next_id, coefCache, pending, genetics, now, phenotype_cache>>

\* the bonus is drawn for a male kitten only
Call_calculate_size(sex, mutation, bonus) ==
    /\ ret.op = "none"
    /\ sex = "female" => bonus = 0
    /\ sex = "male" => bonus \in MaleBonuses
    /\ ret' = [op |-> "calculate_size", sex |-> sex, a |-> mutation, b |-> bonus,
               val |-> calculate_size(registry[1], registry[2], sex, mutation, bonus)]
    /\ UNCHANGED <<registry, next_id, coefCache, pending, genetics, now, phenotype_cache>>

BuildNext ==
    \/ \E mutation \in Mutations : Call_calculate_build(mutation)
    \/ \E sex \in {"male", "female"}, mutation \in Mutations, bonus \in MaleBonuses \cup {0} :
          Call_calculate_size(sex, mutation, bonus)

BuildSpec == BuildInit /\ [][BuildNext]_vars

\* twice / 2 rounded to the nearest integer, a half going up, and a half
\* going to the even neighbour (Python's round)
RoundHalfUp(twice) == (twice + 1) \div 2
RoundHalfEven(twice) ==
    IF twice % 2 = 0 THEN twice \div 2
    ELSE LET lo == (twice - 1) \div 2 IN IF lo % 2 = 0 THEN lo ELSE lo + 1

\* clamp(0, 100, round(twice / 2)) under either reading of round
ClampedRounds(twice) ==
    {Max(0, Min(100, RoundHalfUp(twice))), Max(0, Min(100, RoundHalfEven(twice)))}

\* C18: the offspring buildValue equals
\* clamp(0, 100, round((sire.build + dam.build) / 2 + d)), the half of an odd
\* parent sum rounded to nearest rather than truncated; sizeValue follows
\* the same rule and, for a male, is then increased by the drawn bonus and
\* clamped to at most 100.
C18_RoundedToNearest ==
    /\ ret.op = "calculate_build"
          => ret.val \in ClampedRounds(registry[1].build_value + registry[2].build_value
                                       + 2 * ret.a)
    /\ ret.op = "calculate_size"
          => ret.val \in {IF ret.sex = "male" THEN Min(100, k + ret.b) ELSE k :
                            k \in ClampedRounds(registry[1].size_value
                                                + registry[2].size_value + 2 * ret.a)}


---------------------------------------------------------------------------
(* DiversityAnalyzer: allele frequencies and heterozygosity.  A float that  *)
(* is a quotient of two counts is kept as the fraction <<num, den>>.        *)

RECURSIVE SumOver(_, _)
SumOver(f, S) ==
    IF S = {} THEN 0
    ELSE LET x == CHOOSE y \in S : TRUE IN f[x] + SumOver(f, S \ {x})

\* the alleles listed at `gene` by the cats of the registry
AllelesAt(reg, gene) ==
    UNION {Range(reg[c].genes[gene]) : c \in {k \in DOMAIN reg : gene \in DOMAIN reg[k].genes}}

\* the same counts with the number of cats that carry the gene as the total
calculate_allele_frequencies_per_cat(reg, gene_name) ==
    IF gene_name \notin DOMAIN genetics THEN EmptyDict
    ELSE LET carriers == {c \in DOMAIN reg : gene_name \in DOMAIN reg[c].genes}
             allele_counts == [a \in AllelesAt(reg, gene_name) |->
                                 SumOver([c \in carriers |-> CountOf(a, reg[c].genes[gene_name])],
                                         carriers)]
             total_alleles == Cardinality({c \in carriers : reg[c].genes[gene_name] # <<>>})
         IN  IF total_alleles > 0
             THEN (gene_name :>
                     [counts |-> allele_counts,
                      frequencies |-> [a \in DOMAIN allele_counts |->
                                          <<allele_counts[a], total_alleles>>],
                      total_alleles |-> total_alleles,
                      unique_alleles |-> Cardinality(DOMAIN allele_counts)])
             ELSE EmptyDict

\* calculate_allele_frequencies(gene_name) for one gene: the dictionary is
\* empty when the store has no entry for the gene or no cat lists an allele
calculate_allele_frequencies(reg, gene_name) ==
    IF gene_name \notin DOMAIN genetics THEN EmptyDict
    ELSE LET carriers == {c \in DOMAIN reg : gene_name \in DOMAIN reg[c].genes}
             allele_counts == [a \in AllelesAt(reg, gene_name) |->
                                 SumOver([c \in carriers |-> CountOf(a, reg[c].genes[gene_name])],
                                         carriers)]
             total_alleles == SumOver([c \in carriers |-> Len(reg[c].genes[gene_name])],
                                      carriers)
         IN  IF total_alleles > 0
             THEN (gene_name :>
                     [counts |-> allele_counts,
                      frequencies |-> [a \in DOMAIN allele_counts |->
                                          <<allele_counts[a], total_alleles>>],
                      total_alleles |-> total_alleles,
                      unique_alleles |-> Cardinality(DOMAIN allele_counts)])
             ELSE EmptyDict

\* 1 - sum(freq ** 2): the frequencies of one gene share their denominator
expected_heterozygosity(allele_freqs) ==
    LET den == (CHOOSE a \in DOMAIN allele_freqs : TRUE)
        total == allele_freqs[den][2]
        squares == [a \in DOMAIN allele_freqs |-> allele_freqs[a][1] * allele_freqs[a][1]]
    IN  <<total * total - SumOver(squares, DOMAIN allele_freqs), total * total>>

calculate_heterozygosity(reg) ==
    LET scored(g) == {c \in DOMAIN reg :
                         g \in DOMAIN reg[c].genes /\ Len(reg[c].genes[g]) = 2}
        het(g) == {c \in scored(g) : reg[c].genes[g][1] # reg[c].genes[g][2]}
        kept == {g \in DOMAIN genetics :
                    /\ ~Get(genetics[g], "x_linked", FALSE)
                    /\ g \in DOMAIN calculate_allele_frequencies(reg, g)
                    /\ scored(g) # {}}
    IN  [g \in kept |->
            LET het_count == Cardinality(het(g))
                hom_count == Cardinality(scored(g) \ het(g))
                total == het_count + hom_count
                expected_het ==
                    expected_heterozygosity(calculate_allele_frequencies(reg, g)[g].frequencies)
            IN  [observed |-> <<het_count, total>>,
                 expected |-> expected_het,
                 heterozygotes |-> het_count,
                 homozygotes |-> hom_count,
                 f_statistic |-> IF expected_het[1] > 0
                                 THEN <<expected_het[1] * total - het_count * expected_het[2],
                                        expected_het[1] * total>>
                                 ELSE <<0, 1>>]]

Call_calculate_heterozygosity ==
    /\ ret.op = "none"
    /\ ret' = [op |-> "calculate_heterozygosity", val |-> calculate_heterozygosity(registry)]
    /\ UNCHANGED <<registry, next_id, coefCache, pending, genetics, now, phenotype_cache>>

---------------------------------------------------------------------------
(* The heterozygosity specification: a population of up to MaxHetCats cats *)
(* with an autosomal and an X-linked locus, then one report.               *)

MaxHetCats == 3

\* gene stores: an autosomal and an X-linked locus; the autosomal locus
\* alone, without an x_linked entry
HetStores ==
    { [dilution |-> GeneDef(<<"D", "d">>, <<1, 0>>, FALSE),
       red |-> GeneDef(<<"O", "o">>, <<1, 0>>, TRUE)],
      [dilution |-> AutosomalDef(<<"D", "d">>, <<1, 0>>)] }

\* genotypes: the autosomal locus absent, empty, with one, two or three
\* alleles; the X-linked locus absent or heterozygous
HetGenotypes ==
    {Merge(d, r) :
        d \in {EmptyDict, [dilution |-> <<>>], [dilution |-> <<"D">>],
               [dilution |-> <<"D", "D">>], [dilution |-> <<"D", "d">>],
               [dilution |-> <<"d", "d">>], [dilution |-> <<"D", "d", "d">>]},
        r \in {EmptyDict, [red |-> <<"O", "o">>]}}

HetInit ==
    /\ \E n \in 0 .. MaxHetCats :
          /\ \E genes \in [1 .. n -> HetGenotypes] :
                registry = [c \in 1 .. n |->
                              Cat(c, "female", genes[c], NoId, NoId, 50, 50, NoneVal)]
          /\ next_id = n + 1
    /\ genetics \in HetStores
    /\ coefCache = EmptyDict
    /\ pending = EmptyDict
    /\ now = 1
    /\ phenotype_cache = EmptyDict
    /\ ret = NoRet

HetNext == Call_calculate_heterozygosity

HetSpec == HetInit /\ [][HetNext]_vars

\* the cats scored at gene g: exactly two alleles listed
Scored(reg, g) ==
    {c \in DOMAIN reg : g \in DOMAIN reg[c].genes /\ Len(reg[c].genes[g]) = 2}

\* a fraction <<num, den>> lies in 0..1
InUnitInterval(x) == x[2] > 0 /\ 0 <= x[1] /\ x[1] <= x[2]

FracEq(x, y) == x[1] * y[2] = y[1] * x[2]

\* how often allele a is listed at gene g in the population, and how many
\* alleles are listed there in all
Occurrences(reg, g, a) ==
    LET carriers == {c \in DOMAIN reg : g \in DOMAIN reg[c].genes}
    IN  SumOver([c \in carriers |-> CountOf(a, reg[c].genes[g])], carriers)
Listed(reg, g) ==
    LET carriers == {c \in DOMAIN reg : g \in DOMAIN reg[c].genes}
    IN  SumOver([c \in carriers |-> Len(reg[c].genes[g])], carriers)

\* 1 - the sum over the alleles a of (Occurrences / Listed) squared
OneMinusSquaredFrequencies(reg, g) ==
    LET alleles == AllelesAt(reg, g)
        squares == [a \in alleles |-> Occurrences(reg, g, a) * Occurrences(reg, g, a)]
    IN  <<Listed(reg, g) * Listed(reg, g) - SumOver(squares, alleles),
          Listed(reg, g) * Listed(reg, g)>>

\* C19: for every non-X-linked gene reported by calculate_heterozygosity,
\* 0 <= observed <= 1 and 0 <= expected <= 1, where observed =
\* heterozygotes / (heterozygotes + homozygotes) counted over the individuals
\* with exactly two alleles at the gene and expected = 1 - the sum of the
\* squared allele frequencies; genes with no two-allele individual are
\* omitted.
C19_HeterozygosityInUnitInterval ==
    ret.op = "calculate_heterozygosity"
        => /\ DOMAIN ret.val = {g \in DOMAIN genetics :
                                   /\ ~Get(genetics[g], "x_linked", FALSE)
                                   /\ Scored(registry, g) # {}}
           /\ \A g \in DOMAIN ret.val :
                 LET r == ret.val[g]
                     heterozygotes ==
                         {c \in Scored(registry, g) :
                             Cardinality(Range(registry[c].genes[g])) = 2}
                 IN  /\ InUnitInterval(r.observed)
                     /\ InUnitInterval(r.expected)
                     /\ r.heterozygotes = Cardinality(heterozygotes)
                     /\ r.heterozygotes + r.homozygotes = Cardinality(Scored(registry, g))
                     /\ FracEq(r.observed, <<r.heterozygotes, r.heterozygotes + r.homozygotes>>)
                     /\ FracEq(r.expected, OneMinusSquaredFrequencies(registry, g))

\* a population in which a one-allele and a three-allele individual count in
\* the frequencies but not among the scored, and the scored are one
\* heterozygote and one homozygote
C19_Witness ==
    /\ ret.op = "calculate_heterozygosity"
    /\ "red" \in DOMAIN genetics
    /\ DOMAIN ret.val = {"dilution"}
    /\ ret.val["dilution"].heterozygotes = 1
    /\ ret.val["dilution"].homozygotes = 1
    /\ \E c \in DOMAIN registry : "dilution" \in DOMAIN registry[c].genes
                                    /\ Len(registry[c].genes["dilution"]) \in {1, 3}
    /\ \E c \in DOMAIN registry : "red" \in DOMAIN registry[c].genes


---------------------------------------------------------------------------
(* The dominance specification: a gene store with one locus and one call   *)
(* of GeneticsEngine.get_dominant_allele.                                  *)

\* get_dominant_allele raises IndexError: the gene is in the store and the
\* list is empty, so len(alleles) == 1 is false and alleles[0] is read
get_dominant_allele_raises(gene_name, alleles) ==
    gene_name \in DOMAIN genetics /\ Len(alleles) = 0

\* stores for the locus agouti: distinct ranks, equal ranks, a dominance
\* table without an entry for a, and one whose only entry is negative
DominanceTables ==
    { ("A" :> 2 @@ "Apb" :> 1 @@ "a" :> 0),
      ("A" :> 1 @@ "Apb" :> 1 @@ "a" :> 0),
      ("A" :> 1 @@ "Apb" :> 0),
      ("A" :> -1) }

DomStores ==
    {[agouti |-> [alleles |-> <<"A", "Apb", "a">>, dominance |-> d,
                  weights |-> [x \in {"A", "Apb", "a"} |-> 1], x_linked |-> FALSE]] :
        d \in DominanceTables}

\* the lists handed to get_dominant_allele: empty, one allele, two alleles
DomAlleles == {"A", "Apb", "a", "x"}
DomLists == {<<>>} \cup {<<a>> : a \in DomAlleles}
                   \cup {<<a, b>> : a \in DomAlleles, b \in DomAlleles}

DomInit ==
    /\ registry = EmptyDict
    /\ next_id = 1
    /\ coefCache = EmptyDict
    /\ pending = EmptyDict
    /\ genetics \in DomStores
    /\ now = 1
    /\ phenotype_cache = EmptyDict
    /\ ret = NoRet

Call_get_dominant_allele(gene_name, alleles) ==
    /\ ret.op = "none"
    /\ ret' = [op |-> "get_dominant_allele", gene |-> gene_name, alleles |-> alleles,
               raised |-> get_dominant_allele_raises(gene_name, alleles),
               val |-> IF get_dominant_allele_raises(gene_name, alleles) THEN NoAllele
                       ELSE get_dominant_allele(gene_name, alleles)]
    /\ UNCHANGED <<registry, next_id, coefCache, pending, genetics, now, phenotype_cache>>

DomNext ==
    \E gene_name \in {"agouti", "tail"}, alleles \in DomLists :
        Call_get_dominant_allele(gene_name, alleles)

DomSpec == DomInit /\ [][DomNext]_vars

\* the dominance rank of an allele, a missing rank counting as 0
RankOf(gene_name, allele) ==
    IF allele \in DOMAIN genetics[gene_name].dominance
    THEN genetics[gene_name].dominance[allele] ELSE 0

\* C20: get_dominant_allele(gene, [a, b]) returns b when b's rank is
\* strictly higher than a's (a missing rank counts as 0), otherwise a; for
\* an unknown gene or a one-element list it returns the first element, and
\* for an empty list it returns None without raising.
C20_DominantAllele ==
    ret.op = "get_dominant_allele"
        => /\ ~ret.raised
           /\ Len(ret.alleles) = 0 => ret.val = NoAllele
           /\ (Len(ret.alleles) = 1 \/ (Len(ret.alleles) = 2 /\ ret.gene \notin DOMAIN genetics))
                 => ret.val = ret.alleles[1]
           /\ (Len(ret.alleles) = 2 /\ ret.gene \in DOMAIN genetics)
                 => ret.val = IF RankOf(ret.gene, ret.alleles[2]) > RankOf(ret.gene, ret.alleles[1])
                              THEN ret.alleles[2] ELSE ret.alleles[1]


---------------------------------------------------------------------------
(* Further claims on the kinship specification *)

\* one of the two cats is a recorded parent of the other
ParentAndOffspring(reg, s, d) == s \in Parents(reg, d) \/ d \in Parents(reg, s)

\* two different cats with the same two recorded parents
FullSiblings(reg, s, d) ==
    /\ s # d
    /\ HasBothParents(reg, s) /\ HasBothParents(reg, d)
    /\ Parents(reg, s) = Parents(reg, d)
    /\ Cardinality(Parents(reg, s)) = 2

EntriesFor(list, c) == {i \in DOMAIN list : list[i].id = c}

\* C21: with the default threshold find_inbred_cats lists every individual
\* whose sire and dam are parent and offspring of one another or are full
\* siblings, with coefficient >= 0.25 and relationship 'Parent-offspring or
\* sibling mating'; the list holds only individuals with both parents
\* recorded and F above the threshold, in descending order of coefficient.
C21_CloseMatingsListed ==
    ret.op = "find_inbred_cats"
        => /\ ~ret.raised
           /\ \A c \in DOMAIN registry :
                 ( /\ HasBothParents(registry, c)
                   /\ \/ ParentAndOffspring(registry, registry[c].sire_id, registry[c].dam_id)
                      \/ FullSiblings(registry, registry[c].sire_id, registry[c].dam_id) )
                     => \E i \in EntriesFor(ret.val, c) :
                           /\ FGeq(ret.val[i].coefficient, <<1, 2>>)
                           /\ ret.val[i].relationship = "Parent-offspring or sibling mating"
           /\ \A i \in DOMAIN ret.val :
                 /\ HasBothParents(registry, ret.val[i].id)
                 /\ FGreater(ret.val[i].coefficient, InbredThreshold)
           /\ \A i \in DOMAIN ret.val, j \in DOMAIN ret.val :
                 i < j => FGeq(ret.val[i].coefficient, ret.val[j].coefficient)


---------------------------------------------------------------------------
(* Further claims on the breeding specification *)

\* the number of alleles the segregation rule gives a kitten at a locus
SegregationLen(sex, gene_name) ==
    IF gene_name \in XLinkedLoci /\ sex = "male" THEN 1 ELSE 2

\* the alleles the segregation rule allows at position idx of a locus
SegregationAlleles(sire, dam, sex, gene_name, idx) ==
    IF gene_name \in XLinkedLoci
    THEN IF sex = "male" \/ idx = 2
         THEN SideAlleles(dam, gene_name)
         ELSE LET sire_alleles == Get(sire.genes, gene_name, <<>>)
              IN  IF sire_alleles # <<>> THEN {sire_alleles[1]}
                  ELSE {genetics[gene_name].alleles[1]}
    ELSE IF idx = 1 THEN SideAlleles(sire, gene_name) ELSE SideAlleles(dam, gene_name)

\* C22: breed_cats applies no mutation when rarity_boost <= 1.0; when
\* rarity_boost > 1.0 every allele of every offspring locus is either the
\* allele inherited under the segregation rule or a member of the gene's
\* defined allele set, and the number of alleles at each locus (1 for an
\* X-linked locus in a male, otherwise 2) is that of the segregation rule.
C22_MutationStaysInAlleleSet ==
    ret.op = "generate_litter"
        => \A i \in DOMAIN ret.val, gene_name \in InheritedGenes :
              LET kitten == ret.val[i]
              IN  /\ gene_name \in DOMAIN kitten.genes
                  /\ Len(kitten.genes[gene_name]) = SegregationLen(kitten.sex, gene_name)
                  /\ \A idx \in DOMAIN kitten.genes[gene_name] :
                        \/ kitten.genes[gene_name][idx]
                               \in SegregationAlleles(ret.sire, ret.dam, kitten.sex, gene_name, idx)
                        \/ /\ ret.rarity_boost > BoostOne
                           /\ kitten.genes[gene_name][idx] \in Range(genetics[gene_name].alleles)

\* a litter bred with rarity_boost 2.0 in which a kitten holds an allele
\* that neither parent could pass on at that position
C22_Witness ==
    /\ ret.op = "generate_litter"
    /\ ret.rarity_boost > BoostOne
    /\ \E i \in DOMAIN ret.val, gene_name \in InheritedGenes :
          \E idx \in DOMAIN ret.val[i].genes[gene_name] :
             ret.val[i].genes[gene_name][idx]
                 \notin SegregationAlleles(ret.sire, ret.dam, ret.val[i].sex, gene_name, idx)


---------------------------------------------------------------------------
(* The pattern specification: one cat whose colour and pattern loci vary,  *)
(* described once by calculate_phenotype with the full gene store.         *)

PatAgoutis ==
    { EmptyDict, [agouti |-> <<"a", "a">>], [agouti |-> <<"Apb", "a">>],
      [agouti |-> <<"a", "Apb">>], [agouti |-> <<"A", "Apb">>] }
PatTickeds == { EmptyDict, [ticked |-> <<"Ta", "ta">>] }
PatReds(sex) ==
    IF sex = "male" THEN { EmptyDict, [red |-> <<"O">>] }
    ELSE { EmptyDict, [red |-> <<"O", "o">>], [red |-> <<"O", "O">>] }
PatInhibitors == { EmptyDict, [inhibitor |-> <<"I", "i">>] }
PatWideBands == { EmptyDict, [wide_band |-> <<"Wb", "wb">>] }
PatKarpatis == { EmptyDict, [karpati |-> <<"K", "k">>] }
PatRestrictions ==
    { EmptyDict, [color_restriction |-> <<"cs", "cb">>], [color_restriction |-> <<"cs", "cs">>],
      [color_restriction |-> <<"cb", "cb">>], [color_restriction |-> <<"C", "cs">>],
      [color_restriction |-> <<"cb", "c">>], [color_restriction |-> <<"c", "cs">>] }
PatBases == { EmptyDict, [base_color |-> <<"b", "b">>] }
PatWhites == { EmptyDict, [white |-> <<"Ws", "w">>] }

PatGenotypes(sex) ==
    { Merge(Merge(Merge(Merge(a, t), Merge(r, i)), Merge(Merge(wb, k), Merge(c, b))), w) :
        a \in PatAgoutis, t \in PatTickeds, r \in PatReds(sex), i \in PatInhibitors,
        wb \in PatWideBands, k \in PatKarpatis, c \in PatRestrictions, b \in PatBases,
        w \in PatWhites }

PatInit ==
    /\ \E sex \in {"male", "female"} :
          \E genes \in PatGenotypes(sex) :
             registry = (1 :> Cat(1, sex, genes, NoId, NoId, 50, 50, NoneVal))
    /\ next_id = 2
    /\ coefCache = EmptyDict
    /\ pending = EmptyDict
    /\ genetics = CoatGenes
    /\ now = 1
    /\ phenotype_cache = EmptyDict
    /\ ret = NoRet

PatNext ==
    \E draw \in PhenoDraws : ret.op = "none" /\ Call_calculate_phenotype(1, draw)

PatSpec == PatInit /\ [][PatNext]_vars

---------------------------------------------------------------------------
(* Claims on the pattern specification *)

\* the cat the last calculate_phenotype described
Described == [sex |-> ret.sex, genes |-> ret.genes]

\* the word occurs in the phenotype text
HasWord(text, word) == \E i \in DOMAIN text : text[i] = word

\* C23: the Charcoal pattern names are produced only for individuals whose
\* red expression is non-red: no genotype whose red expression is red or
\* tortie yields a phenotype text containing 'Charcoal'.
C23_CharcoalOnlyNonRed ==
    ( /\ ret.op = "calculate_phenotype"
      /\ get_red_expression(Described) \in {"red", "tortie"} )
        => ~HasWord(ret.val, "Charcoal")


\* the words of the white descriptor
WhiteWords == {"with", "Low", "High", "White", "Bicolor"}

\* the described cat without its color_restriction entry, its white
\* percentage being the one the description settled on
Unrestricted ==
    Cat(1, ret.sex, Del(ret.genes, "color_restriction"), NoId, NoId, 50, 50, ret.wp)

\* C24: for every genotype that is neither dominant white nor albino the
\* text carries at most one of Mink, Point, Sepia: Mink iff both cb and cs
\* are present; otherwise Point iff the dominance-resolved color_restriction
\* allele is cs, and then 'Black' of the colour phrase is rendered 'Seal'
\* ('Black' and 'Point' never occur together); otherwise Sepia iff the
\* resolved allele is cb; the suffix follows 'with Karpati' and precedes the
\* white descriptor.
C24_RestrictionSuffix ==
    ( /\ ret.op = "calculate_phenotype"
      /\ ~HasDominantWhite(ret.genes) /\ ~IsAlbino(ret.genes) )
        => LET cr_alleles == Get(ret.genes, "color_restriction", <<"C", "C">>)
               both == InList("cb", cr_alleles) /\ InList("cs", cr_alleles)
               resolved == get_dominant_allele("color_restriction", cr_alleles)
               at == {i \in DOMAIN ret.val : ret.val[i] \in {"Mink", "Point", "Sepia"}}
               plain == calculate_phenotype(Unrestricted, 0).val
           IN  /\ Cardinality(at) <= 1
               /\ HasWord(ret.val, "Mink") <=> both
               /\ HasWord(ret.val, "Point") <=> (~both /\ resolved = "cs")
               /\ HasWord(ret.val, "Sepia") <=> (~both /\ resolved # "cs" /\ resolved = "cb")
               /\ HasWord(ret.val, "Point") => ~HasWord(ret.val, "Black")
               /\ HasWord(ret.val, "Seal")
                      <=> (HasWord(ret.val, "Point") /\ HasWord(plain, "Black"))
               /\ \A i \in at :
                     /\ HasWord(ret.val, "Karpati") => ret.val[i - 1] = "Karpati"
                     /\ \A j \in DOMAIN ret.val : j > i => ret.val[j] \in WhiteWords
                     /\ \A j \in DOMAIN ret.val : j < i => ret.val[j] \notin {"Low", "High", "Bicolor"}

\* a seal point with Karpati and a bicolor coat: 'Seal ... with Karpati
\* Point Bicolor'
C24_Witness ==
    /\ ret.op = "calculate_phenotype"
    /\ HasWord(ret.val, "Seal")
    /\ \E i \in DOMAIN ret.val :
          /\ i > 2 /\ i < Len(ret.val)
          /\ ret.val[i - 1] = "Karpati" /\ ret.val[i] = "Point" /\ ret.val[i + 1] = "Bicolor"


\* the described genotype holds the inhibitor allele I / a wide-band allele Wb
HasInhibitor(genes) == InList("I", Get(genes, "inhibitor", <<>>))
HasWideBand(genes) == InList("Wb", Get(genes, "wide_band", <<>>))

\* agouti a/a
IsSolid(genes) == Get(genes, "agouti", <<>>) = <<"a", "a">>

\* C25: silver takes precedence over golden: no text contains both 'Silver'
\* and 'Golden'; 'Golden' appears only when a Wb allele is present and no
\* inhibitor allele I is; for solid (a/a) non-red and tortie individuals
\* neither word appears and the inhibitor shows as 'Smoke' instead.
C25_SilverOverGolden ==
    ( /\ ret.op = "calculate_phenotype"
      /\ ~HasDominantWhite(ret.genes) /\ ~IsAlbino(ret.genes) )
        => LET tabby == ~IsSolid(ret.genes) \/ get_red_expression(Described) = "red"
           IN  /\ ~(HasWord(ret.val, "Silver") /\ HasWord(ret.val, "Golden"))
               /\ HasWord(ret.val, "Golden")
                     => (HasWideBand(ret.genes) /\ ~HasInhibitor(ret.genes))
               /\ (tabby /\ HasInhibitor(ret.genes)) => HasWord(ret.val, "Silver")
               /\ ~tabby => /\ ~HasWord(ret.val, "Silver")
                            /\ ~HasWord(ret.val, "Golden")
                            /\ HasWord(ret.val, "Smoke") <=> HasInhibitor(ret.genes)

\* a tabby holding both I and Wb, described as Silver and not as Golden
C25_Witness ==
    /\ ret.op = "calculate_phenotype"
    /\ HasInhibitor(ret.genes) /\ HasWideBand(ret.genes)
    /\ ~IsSolid(ret.genes)
    /\ HasWord(ret.val, "Silver") /\ ~HasWord(ret.val, "Golden")


\* the parent paths from c to a of at most n hops, each the sequence of the
\* cats it passes after c
RECURSIVE ParentPaths(_, _, _, _)
ParentPaths(reg, c, a, n) ==
    IF n = 0 THEN {}
    ELSE UNION { (IF p = a THEN {<<p>>} ELSE {})
                     \cup {<<p>> \o q : q \in ParentPaths(reg, p, a, n - 1)} :
                 p \in Parents(reg, c) }

\* C26: on an acyclic pedigree no deeper than 10 generations
\* find_pedigree_loops(id) returns exactly one entry for each ancestor
\* reachable from id by more than one distinct parent path, with occurrences
\* equal to the number of those paths, and no entry for an ancestor
\* reachable by a single path.
C26_LoopsCountPaths ==
    (ret.op = "find_pedigree_loops" /\ Acyclic(registry))
        => LET paths(a) == Cardinality(ParentPaths(registry, ret.a, a, LoopAncestorDepth))
           IN  ret.val = {[ancestor_id |-> a, occurrences |-> paths(a)] :
                             a \in {x \in DOMAIN registry : paths(x) > 1}}

\* an ancestor reached by three or more paths is reported with that count,
\* and an ancestor reached by one path only is left out
C26_Witness ==
    /\ ret.op = "find_pedigree_loops"
    /\ \E e \in ret.val : e.occurrences >= 3
    /\ \E a \in DOMAIN registry :
          /\ Cardinality(ParentPaths(registry, ret.a, a, LoopAncestorDepth)) = 1
          /\ \A e \in ret.val : e.ancestor_id # a

---------------------------------------------------------------------------
(* CatService.get_phenotype and the service specification: cats are        *)
(* created, edited, deleted, bred and reloaded through the services, and   *)
(* their phenotype is read through CatService's cache.                     *)

\* get_phenotype(cat_id, use_cache): a cached text is returned as it is;
\* otherwise a missing cat raises ValueError, and the text calculated for
\* the registered cat is stored in the cache and returned.  ret keeps the
\* cat registered under cat_id when the call was made (registered, sex,
\* genes, wp_in).
get_phenotype(cat_id, use_cache, draw) ==
    LET registered == cat_id \in DOMAIN registry
        cat == IF registered THEN registry[cat_id]
               ELSE Cat(NoneVal, "female", EmptyDict, NoId, NoId, 50, 50, NoneVal)
        answer(val, raised) ==
            [op |-> "get_phenotype", a |-> cat_id, use_cache |-> use_cache,
             registered |-> registered, sex |-> cat.sex, genes |-> cat.genes,
             wp_in |-> cat.wp, val |-> val, raised |-> raised]
    IN  IF use_cache /\ cat_id \in DOMAIN phenotype_cache
        THEN /\ ret' = answer(phenotype_cache[cat_id], FALSE)
             /\ UNCHANGED <<registry, next_id, coefCache, pending, genetics, now,
                            phenotype_cache>>
        ELSE IF ~registered
        THEN /\ ret' = answer(<<>>, TRUE)
             /\ UNCHANGED <<registry, next_id, coefCache, pending, genetics, now,
                            phenotype_cache>>
        ELSE /\ draw \in phenotype_choices(cat)
             /\ LET r == calculate_phenotype(cat, draw)
                IN  /\ registry' = [registry EXCEPT ![cat_id].wp = r.wp]
                    /\ phenotype_cache' = Put(phenotype_cache, cat_id, r.val)
                    /\ ret' = answer(r.val, FALSE)
             /\ UNCHANGED <<next_id, coefCache, pending, genetics, now>>

\* cats created by hand: MaxServiceCats, and one more id for a kitten
MaxServiceCats == 2
ServiceIds == 1 .. (MaxServiceCats + 1)
\* the gene store: the fur length locus
ServiceGenes == [fur_length |-> GeneDef(<<"L", "l">>, <<1, 0>>, FALSE)]
\* genotypes typed in
ServiceGenotypes == {[fur_length |-> <<"L", "L">>], [fur_length |-> <<"l", "l">>]}
\* the rolls followed
ServiceRolls == [sex : {"female"}, build : {0}, size : {0}, bonus : {3}]
\* registry files: a pair, shorthaired or longhaired
ServiceFiles ==
    { <<Cat(1, "male", genes, NoId, NoId, 50, 50, NoneVal),
        Cat(2, "female", genes, NoId, NoId, 50, 50, NoneVal)>> :
      genes \in ServiceGenotypes }

ServiceInit ==
    /\ registry = EmptyDict
    /\ next_id = 1
    /\ coefCache = EmptyDict
    /\ pending = EmptyDict
    /\ genetics = ServiceGenes
    /\ now = 1
    /\ phenotype_cache = EmptyDict
    /\ ret = NoRet

ServiceNext ==
    \/ \E sex \in {"male", "female"}, genes \in ServiceGenotypes :
          /\ next_id <= MaxServiceCats
          /\ create_cat(sex, genes, NoId, NoId, 50, 50, NoneVal)
    \/ \E c \in ServiceIds, genes \in ServiceGenotypes :
          update_cat(c, [genes |-> genes])
    \/ \E c \in ServiceIds : delete_cat(c)
    \/ \E rolls \in [1 .. 1 -> ServiceRolls] :
          /\ Cardinality(DOMAIN pending) < MaxPending
          /\ next_id <= MaxServiceCats + 1
          /\ generate_litter(1, 2, 1, BoostOne, TRUE, rolls)
    \/ \E litter_id \in DOMAIN pending : save_litter(litter_id)
    \/ \E data \in ServiceFiles : load_registry(data)
    \/ \E c \in ServiceIds, use_cache \in BOOLEAN :
          get_phenotype(c, use_cache, 0)

ServiceSpec == ServiceInit /\ [][ServiceNext]_vars

---------------------------------------------------------------------------
(* Claim on the service specification                                      *)

\* the cat get_phenotype was asked about, as it was registered
Asked == Cat(ret.a, ret.sex, ret.genes, NoId, NoId, 50, 50, ret.wp_in)

\* C27: after any sequence of create_cat, update_cat, delete_cat, save_litter
\* and load_registry, get_phenotype(id) with use_cache=True returns what
\* calculate_phenotype gives for the cat currently registered under id.
C27_PhenotypeCacheCoherent ==
    (ret.op = "get_phenotype" /\ ret.use_cache /\ ~ret.raised)
        => /\ ret.registered
           /\ ret.val = calculate_phenotype(Asked, 0).val


---------------------------------------------------------------------------
(* The litter specification: litters are generated from one pair, saved    *)
(* and discarded while the clock advances.                                 *)

\* the clock runs from 1 to MaxTime seconds
MaxTime == 2
\* ids handed out to kittens: up to MaxLitterCats
MaxLitterCats == 4
\* the gene store: the dilution locus
LitterGenes == [dilution |-> GeneDef(<<"D", "d">>, <<1, 0>>, FALSE)]
\* the rolls followed
LitterRolls == [sex : {"male", "female"}, build : {0}, size : {0}, bonus : {3}]

\* datetime.now() is a second later
Tick ==
    /\ now < MaxTime
    /\ now' = now + 1
    /\ UNCHANGED <<registry, next_id, coefCache, pending, genetics, ret, phenotype_cache>>

LitterInit ==
    /\ registry = (1 :> Cat(1, "male", [dilution |-> <<"D", "d">>], NoId, NoId, 50, 50, NoneVal))
               @@ (2 :> Cat(2, "female", [dilution |-> <<"d", "d">>], NoId, NoId, 50, 50, NoneVal))
    /\ next_id = 3
    /\ coefCache = EmptyDict
    /\ pending = EmptyDict
    /\ genetics = LitterGenes
    /\ now = 1
    /\ phenotype_cache = EmptyDict
    /\ ret = NoRet

LitterNext ==
    \/ \E litter_size \in 1 .. MaxLitter, validate \in BOOLEAN,
          rolls \in UNION {[1 .. n -> LitterRolls] : n \in 1 .. MaxLitter} :
          generate_litter(1, 2, litter_size, BoostOne, validate, rolls)
    \/ \E litter_id \in DOMAIN pending :
          /\ next_id + Len(pending[litter_id]) <= MaxLitterCats + 1
          /\ save_litter(litter_id)
    \/ \E litter_id \in DOMAIN pending : discard_litter(litter_id)
    \/ Tick

LitterSpec == LitterInit /\ [][LitterNext]_vars

---------------------------------------------------------------------------
(* Claim on the litter specification                                       *)

\* the litters that leave the pending ones in a step
Leaving == {l \in DOMAIN pending : l \notin DOMAIN pending'}

\* the registry gains exactly the kittens of litter, in order, under ids that
\* were not registered and are pairwise distinct
SavedAs(litter) ==
    \E ids \in [DOMAIN litter -> DOMAIN registry' \ DOMAIN registry] :
       /\ \A i, j \in DOMAIN litter : i # j => ids[i] # ids[j]
       /\ DOMAIN registry' = DOMAIN registry \cup Range(ids)
       /\ \A c \in DOMAIN registry : registry'[c] = registry[c]
       /\ \A i \in DOMAIN litter : registry'[ids[i]] = [litter[i] EXCEPT !.id = ids[i]]

\* C28: generate_litter never changes the registry; a litter stays pending
\* as it was generated until it is saved or discarded, save_litter adds
\* exactly its kittens under fresh, pairwise distinct ids and removes it from
\* the pending ones, nothing else adds to the registry, and generate_litter
\* does not replace a litter that is still pending.
C28_PendingLitters ==
    [][ /\ ret' # ret => registry' = registry /\ next_id' = next_id
        /\ \A l \in Leaving : registry' = registry \/ SavedAs(pending[l])
        /\ registry' # registry => Cardinality(Leaving) = 1
        /\ \A l \in DOMAIN pending \ Leaving : pending'[l] = pending[l] ]_vars


---------------------------------------------------------------------------
(* Claim on the breeding specification: what breed_cats leaves alone       *)

\* C29: breed_cats(sire, dam, n, boost) returns exactly n offspring; the
\* sire and the dam (genotypes, build and size values) and the registry are
\* as they were, also when mutation is applied; every offspring has no id,
\* sire_id = sire.id, dam_id = dam.id, build and size values within 0..100
\* and a genotype entry for exactly the gene-store loci other than build and
\* size.
C29_BreedCatsFrame ==
    ret.op = "generate_litter" =>
        /\ Len(ret.val) = ret.litter_size
        /\ DOMAIN registry = {ret.sire.id, ret.dam.id}
        /\ registry[ret.sire.id] = ret.sire
        /\ registry[ret.dam.id] = ret.dam
        /\ \A i \in DOMAIN ret.val :
              LET kitten == ret.val[i]
              IN  /\ kitten.id = NoneVal
                  /\ kitten.sire_id = ret.sire.id
                  /\ kitten.dam_id = ret.dam.id
                  /\ kitten.build_value \in 0 .. 100
                  /\ kitten.size_value \in 0 .. 100
                  /\ DOMAIN kitten.genes = DOMAIN genetics \ {"build", "size"}

\* two kittens bred with mutation from a gene store that holds a build
\* entry, one of them with an allele the dam does not carry in the place
\* the dam fills
C29_Witness ==
    /\ ret.op = "generate_litter"
    /\ ret.rarity_boost > BoostOne
    /\ ret.litter_size = 2
    /\ "build" \in DOMAIN genetics
    /\ Get(ret.dam.genes, "dilution", <<>>) = <<"d", "d">>
    /\ ret.val[1].genes["dilution"][2] = "D"
    /\ registry[ret.dam.id].genes["dilution"] = <<"d", "d">>


---------------------------------------------------------------------------
(* The registry specification: CatRegistry driven directly by add_cat,     *)
(* remove_cat, clear and load_from_data.  ret keeps the id the last        *)
(* add_cat was handed (given) and returned (val), and the ids stored       *)
(* since the last clear or load_from_data, before the call (before) and    *)
(* after it (stored).                                                      *)

\* ids typed in and handed out: up to MaxRegId
MaxRegId == 4
RegIds == 1 .. MaxRegId

Stored(r) == IF r.op = "none" THEN {} ELSE r.stored

\* the cats handed to add_cat: with or without an id, a founder or the
\* offspring of sire 1
RegCats ==
    {Cat(id, "female", EmptyDict, sire_id, NoId, 50, 50, NoneVal) :
        id \in RegIds \cup {NoneVal}, sire_id \in {NoId, 1}}

\* registry files
RegFiles ==
    { <<>>,
      <<Cat(2, "female", EmptyDict, 1, NoId, 50, 50, NoneVal)>>,
      <<Cat(3, "male", EmptyDict, NoId, NoId, 50, 50, NoneVal),
        Cat(1, "female", EmptyDict, NoId, NoId, 50, 50, NoneVal)>> }

Call_add_cat(cat) ==
    LET added == add_cat(registry, next_id, cat)
    IN  /\ registry' = added.cats
        /\ next_id' = added.next_id
        /\ ret' = [op |-> "add_cat", given |-> cat.id, val |-> added.id,
                   before |-> Stored(ret), stored |-> Stored(ret) \cup {added.id}]
        /\ UNCHANGED <<coefCache, pending, genetics, now, phenotype_cache>>

\* remove_cat(cat_id): the entry is deleted if there is one
Call_remove_cat(cat_id) ==
    /\ registry' = IF cat_id \in DOMAIN registry THEN Del(registry, cat_id) ELSE registry
    /\ ret' = [op |-> "remove_cat", given |-> cat_id, val |-> cat_id \in DOMAIN registry,
               before |-> Stored(ret), stored |-> Stored(ret)]
    /\ UNCHANGED <<next_id, coefCache, pending, genetics, now, phenotype_cache>>

\* clear(): no cats, next_id = 1
Call_clear ==
    /\ registry' = EmptyDict
    /\ next_id' = 1
    /\ ret' = [op |-> "clear", given |-> NoneVal, val |-> NoneVal,
               before |-> {}, stored |-> {}]
    /\ UNCHANGED <<coefCache, pending, genetics, now, phenotype_cache>>

Call_load_from_data(data) ==
    LET loaded == load_from_data(EmptyDict, 1, data, 1)
    IN  /\ registry' = loaded.cats
        /\ next_id' = loaded.next_id
        /\ ret' = [op |-> "load_from_data", given |-> NoneVal, val |-> NoneVal,
                   before |-> {}, stored |-> DOMAIN loaded.cats]
        /\ UNCHANGED <<coefCache, pending, genetics, now, phenotype_cache>>

RegInit ==
    /\ registry = EmptyDict
    /\ next_id = 1
    /\ coefCache = EmptyDict
    /\ pending = EmptyDict
    /\ genetics = EmptyDict
    /\ now = 1
    /\ phenotype_cache = EmptyDict
    /\ ret = NoRet

RegNext ==
    \/ \E cat \in RegCats :
          /\ cat.id = NoneVal => next_id <= MaxRegId
          /\ Call_add_cat(cat)
    \/ \E cat_id \in RegIds : Call_remove_cat(cat_id)
    \/ Call_clear
    \/ \E data \in RegFiles : Call_load_from_data(data)

RegSpec == RegInit /\ [][RegNext]_vars

---------------------------------------------------------------------------
(* Claim on the registry specification                                     *)

\* C30: after any sequence of add_cat and remove_cat since the last clear or
\* load_from_data, every registry key equals the id of the cat stored under
\* it and next_id is greater than every id that has been stored, so add_cat
\* on a cat without an id never returns the id of a present or previously
\* removed cat.
C30_IdsNeverReused ==
    /\ \A k \in DOMAIN registry : registry[k].id = k
    /\ DOMAIN registry \subseteq Stored(ret)
    /\ \A i \in Stored(ret) : i < next_id
    /\ (ret.op = "add_cat" /\ ret.given = NoneVal) => ret.val \notin ret.before

\* a cat without an id was added after cat 1 was removed, while a registered
\* cat still names cat 1 as its sire
C30_Witness ==
    /\ ret.op = "add_cat"
    /\ ret.given = NoneVal
    /\ 1 \in ret.before
    /\ 1 \notin DOMAIN registry
    /\ \E k \in DOMAIN registry : k # ret.val /\ registry[k].sire_id = 1


=============================================================================
